---- MODULE Spec2Model ----
(***************************************************************************)
(* Tenant-scoped policy manager: the policy store (DynamoDB table keyed by *)
(* TENANT#tenant / POLICY#id), the CRUD handlers of the API lambda, the    *)
(* event queue, and the queue processor's workflow (IP gate, validate,     *)
(* publish, rule index).                                                   *)
(*                                                                         *)
(* Every "await" of the TypeScript source is a scheduling point: an action *)
(* of this module is the code between two awaits of one handler.           *)
(***************************************************************************)
EXTENDS Integers, Sequences, FiniteSets, TLC

\* ------------------------------------------------------------------ bounds
\* Number of policies ever created (ids are allocated 1..MaxPolicies).
MaxPolicies == 2
\* Number of envelopes ever put on the queue.
MaxMsgs == 2
\* Number of injected store failures (a DynamoDB call that rejects).
MaxFaults == 1
\* Number of message deliveries to the queue processor, over all messages.
MaxReceives == 3

\* ------------------------------------------------------- program constants
\* SqsEventSource batchSize: the most records one handler invocation gets.
BatchSize == 10
\* CidrCache.CACHE_TTL, in minutes
CACHE_TTL == 5
\* deadLetterQueue.maxReceiveCount of the policy events queue.
MaxReceiveCount == 3

\* ------------------------------------------------------------------ inputs
Tenants == {"t1", "t2"}
PolicyIds == 1..MaxPolicies
\* The absent value (undefined / no item).
None == [none |-> TRUE]

\* The username carried by a caller's token; one caller per tenant.
UserOf(t) == IF t = "t1" THEN "u1" ELSE "u2"

\* The context object of a request: tenantId and username of the token.
ApiContext(t) == [tenantId |-> t, username |-> UserOf(t)]

RuleAlice == [id |-> "r1", name |-> "block fb", user |-> "alice", ip |-> "",
              domains |-> "fb.com", action |-> "block",
              time |-> "always", track |-> "log"]
RuleBob == [id |-> "r2", name |-> "allow x", user |-> "bob", ip |-> "",
              domains |-> "x.com", action |-> "allow",
              time |-> "always", track |-> "log"]
RuleBadIp == [id |-> "r1", name |-> "block fb", user |-> "", ip |-> "10.5.5.5",
              domains |-> "fb.com", action |-> "block",
              time |-> "always", track |-> "log"]

\* Request bodies of POST /policies after SchemaValidator.validatePolicyCreate:
\* name is non-empty, description defaults to '', status defaults to draft.
CreateBodies ==
  { [name |-> "a",  description |-> "d", status |-> "draft", rules |-> <<RuleAlice>>],
    [name |-> "ip", description |-> "d", status |-> "draft", rules |-> <<RuleBadIp>>],
    [name |-> "n",  description |-> "",  status |-> "draft", rules |-> <<RuleAlice>>] }

\* Request bodies of PUT /policies/{id} after validatePolicyUpdate: a partial
\* policy; status is one of the fields the schema lets a caller send.
UpdateBodies ==
  { [rules |-> <<RuleBob>>],
    [status |-> "draft"] }

\* The entry of a tenant the container cache holds nothing for; `age` is the
\* time since lastLoaded, in minutes.
NotCached == [loaded |-> FALSE, list |-> <<>>, age |-> 0]

VARIABLES
  policies,   \* the Policies table: [tenant][id] -> item or None
  nextId,     \* the next id createPolicy assigns (uuidv4: never reused)
  queue,      \* the envelopes sent so far, in send order; each with its delivery state
  api,        \* the CRUD request in flight (one API lambda invocation)
  last,       \* the response a CRUD request is returning to its caller, if any
  intent,     \* per policy, the value each field was last explicitly set to by a committed write
  context,    \* RequestContextManager.context of the queue processor (a static field)
  cache,      \* CidrCache of the queue processor: per tenant, the list loaded last
  recs,       \* the processRecord calls of the running handler invocation, in batch order
  index,      \* the UserPolicies table (the rule index)
  faults      \* store failures injected so far

apiVars == <<api, last>>
workerVars == <<context, cache, recs, index, faults>>
vars == <<policies, nextId, queue, api, last, intent, context, cache, recs, index, faults>>

\* ------------------------------------------------------------ policy store

\* GetCommand with Key {PK: TENANT#t, SK: POLICY#id}.
GetItem(t, id) == policies[t][id]

\* The tenant check of the context: a thrown Error when the item's tenant differs.
validateTenantAccess(ctx, resourceTenantId) == resourceTenantId = ctx.tenantId

\* A lookup keyed by the policy id alone: the tenant is left out of the key
\* and the tenant check is skipped.
getPolicyByIdAnyTenant(ctx, id) ==
  IF \E t \in Tenants : policies[t][id] # None /\ policies[t][id].State # "deleted"
  THEN LET t == CHOOSE t \in Tenants :
                  policies[t][id] # None /\ policies[t][id].State # "deleted"
       IN [err |-> "ok", policy |-> policies[t][id].content]
  ELSE [err |-> "NotFoundError", policy |-> None]

\* PolicyRepository.getPolicyById: [err, policy].
getPolicyById(ctx, id) ==
  LET item == GetItem(ctx.tenantId, id) IN
  IF item = None THEN [err |-> "NotFoundError", policy |-> None]
  ELSE IF ~validateTenantAccess(ctx, item.TenantID)
       THEN [err |-> "Error", policy |-> None]
  ELSE IF item.State = "deleted" THEN [err |-> "NotFoundError", policy |-> None]
  ELSE [err |-> "ok", policy |-> item.content]

\* A condition without the #state <> :deletedState clause.
WriteConditionNoState(ctx, id) ==
  LET item == policies[ctx.tenantId][id] IN
  item # None /\ item.TenantID = ctx.tenantId

\* ConditionExpression of the UpdateCommands of updatePolicy and deletePolicy:
\* attribute_exists(PK) AND TenantID = :tenantId AND #state <> :deletedState
WriteCondition(ctx, id) ==
  LET item == GetItem(ctx.tenantId, id) IN
  /\ item # None
  /\ item.TenantID = ctx.tenantId
  /\ item.State # "deleted"

\* { ...existingPolicy, ...updates, _id, created, createdBy, updated, updatedBy }
MergePolicy(existing, updates, id, username) ==
  [f \in DOMAIN existing |->
     IF f = "_id" THEN id
     ELSE IF f = "createdBy" THEN existing.createdBy
     ELSE IF f = "updatedBy" THEN username
     ELSE IF f \in DOMAIN updates THEN updates[f]
     ELSE existing[f]]

\* SET PolicyContent = :content
PutContent(t, id, content) ==
  [policies EXCEPT ![t][id] = [@ EXCEPT !.content = content]]

\* SET #state = :deletedState
PutDeleted(t, id) ==
  [policies EXCEPT ![t][id] = [@ EXCEPT !.State = "deleted"]]

\* The fields a committed write of `updates` explicitly sets.
NoteIntent(id, updates) ==
  [intent EXCEPT ![id] =
     [f \in DOMAIN @ |-> IF f \in DOMAIN updates THEN updates[f] ELSE @[f]]]

\* --------------------------------------------------------------- the queue

\* Variant: an envelope that always announces a create.
EnvelopeAlwaysCreate(ctx, eventType, id) ==
  [eventType |-> "create", policyId |-> id,
   tenantId |-> ctx.tenantId, triggeredBy |-> ctx.username]

Envelope(ctx, eventType, id) ==
  [eventType |-> eventType, policyId |-> id,
   tenantId |-> ctx.tenantId, triggeredBy |-> ctx.username]

\* SQSService.publishPolicyEvent: SendMessage of the envelope.
publishPolicyEvent(ctx, eventType, id) ==
  Append(queue, [ev |-> Envelope(ctx, eventType, id), rc |-> 0, st |-> "visible"])

\* ------------------------------------------------------------- CRUD handlers
\* Two API lambda invocations may run at once, each with its own context.
Clients == {"c1", "c2"}

Idle == [pc |-> "idle"]

\* A mutating request is started only while an envelope can still be sent for it.
CanStart == Len(queue) + Cardinality({c \in Clients : api[c] # Idle}) < MaxMsgs

NoResponse == [op |-> "none", t |-> "none", id |-> 0, res |-> "none", data |-> None]

Returned(op, t, id, res, data) ==
  [op |-> op, t |-> t, id |-> id, res |-> res, data |-> data]

\* GET /policies/{id}
ApiGet(c, t, id) ==
  /\ api[c] = Idle /\ last = NoResponse
  /\ LET r == getPolicyById(ApiContext(t), id) IN
     last' = Returned("get", t, id, r.err, r.policy)
  /\ UNCHANGED <<policies, nextId, queue, api, intent>>
  /\ UNCHANGED workerVars

\* POST /policies: PolicyRepository.createPolicy, then the event is sent.
ApiCreate(c, t, body) ==
  /\ api[c] = Idle
  /\ nextId <= MaxPolicies
  /\ CanStart
  /\ LET id == nextId
         ctx == ApiContext(t)
         policy == [_id |-> id, name |-> body.name, description |-> body.description,
                    status |-> body.status, rules |-> body.rules,
                    createdBy |-> ctx.username, updatedBy |-> ctx.username]
     IN /\ GetItem(t, id) = None      \* attribute_not_exists(PK)
        /\ policies' = [policies EXCEPT ![t][id] =
                          [TenantID |-> ctx.tenantId, State |-> "created",
                           Created |-> nextId, content |-> policy]]
        /\ intent' = [intent EXCEPT ![id] = [rules |-> body.rules, status |-> body.status]]
        /\ api' = [api EXCEPT ![c] =
                     [pc |-> "send", op |-> "create", t |-> t, id |-> id, data |-> policy]]
  /\ nextId' = nextId + 1
  /\ UNCHANGED <<queue, last>>
  /\ UNCHANGED workerVars

\* PUT /policies/{id}: updatePolicy starts with getPolicyById.
ApiUpdateRead(c, t, id, updates) ==
  /\ api[c] = Idle /\ last = NoResponse
  /\ LET r == getPolicyById(ApiContext(t), id) IN
     IF r.err = "ok"
     THEN /\ CanStart
          /\ api' = [api EXCEPT ![c] =
                       [pc |-> "write", op |-> "update", t |-> t, id |-> id,
                        updates |-> updates, existing |-> r.policy]]
          /\ UNCHANGED last
     ELSE /\ last' = Returned("update", t, id, r.err, None)
          /\ UNCHANGED api
  /\ UNCHANGED <<policies, nextId, queue, intent>>
  /\ UNCHANGED workerVars

\* updatePolicy's conditional UpdateCommand of the merged policy.
ApiUpdateWrite(c) ==
  /\ api[c].pc = "write" /\ api[c].op = "update" /\ last = NoResponse
  /\ LET a == api[c]
         ctx == ApiContext(a.t)
         merged == MergePolicy(a.existing, a.updates, a.id, ctx.username)
     IN IF WriteCondition(ctx, a.id)
        THEN /\ policies' = PutContent(a.t, a.id, merged)
             /\ intent' = NoteIntent(a.id, a.updates)
             /\ api' = [api EXCEPT ![c] =
                          [pc |-> "send", op |-> "update", t |-> a.t, id |-> a.id,
                           data |-> merged]]
             /\ UNCHANGED last
        ELSE /\ last' = Returned("update", a.t, a.id, "NotFoundError", None)
             /\ api' = [api EXCEPT ![c] = Idle]
             /\ UNCHANGED <<policies, intent>>
  /\ UNCHANGED <<nextId, queue>>
  /\ UNCHANGED workerVars

\* DELETE /policies/{id}: deletePolicy starts with getPolicyById.
ApiDeleteRead(c, t, id) ==
  /\ api[c] = Idle /\ last = NoResponse
  /\ LET r == getPolicyById(ApiContext(t), id) IN
     IF r.err = "ok"
     THEN /\ CanStart
          /\ api' = [api EXCEPT ![c] = [pc |-> "write", op |-> "delete", t |-> t, id |-> id]]
          /\ UNCHANGED last
     ELSE /\ last' = Returned("delete", t, id, r.err, None)
          /\ UNCHANGED api
  /\ UNCHANGED <<policies, nextId, queue, intent>>
  /\ UNCHANGED workerVars

\* deletePolicy's conditional UpdateCommand setting State to deleted.
ApiDeleteWrite(c) ==
  /\ api[c].pc = "write" /\ api[c].op = "delete" /\ last = NoResponse
  /\ LET a == api[c] IN
     IF WriteCondition(ApiContext(a.t), a.id)
     THEN /\ policies' = PutDeleted(a.t, a.id)
          /\ api' = [api EXCEPT ![c] =
                       [pc |-> "send", op |-> "delete", t |-> a.t, id |-> a.id,
                        data |-> None]]
          /\ UNCHANGED last
     ELSE /\ last' = Returned("delete", a.t, a.id, "NotFoundError", None)
          /\ api' = [api EXCEPT ![c] = Idle]
          /\ UNCHANGED policies
  /\ UNCHANGED <<nextId, queue, intent>>
  /\ UNCHANGED workerVars

\* The handler's SQSService.publishPolicyEvent call, then the 200 response.
ApiSend(c) ==
  /\ api[c].pc = "send" /\ last = NoResponse
  /\ queue' = publishPolicyEvent(ApiContext(api[c].t), api[c].op, api[c].id)
  /\ last' = Returned(api[c].op, api[c].t, api[c].id, "ok", api[c].data)
  /\ api' = [api EXCEPT ![c] = Idle]
  /\ UNCHANGED <<policies, nextId, intent>>
  /\ UNCHANGED workerVars

\* The lambda's return value has gone out to the caller.
ApiRespond ==
  /\ last # NoResponse
  /\ last' = NoResponse
  /\ UNCHANGED <<policies, nextId, queue, api, intent>>
  /\ UNCHANGED workerVars

\* ------------------------------------------------------- IP blacklist gate

\* The IpCidrBlackList table: the CIDR entries of each tenant.
BlacklistStore(t) ==
  IF t = "t1" THEN <<[network |-> "10.0.0.0", prefix |-> 8]>> ELSE <<>>

\* ip.split('.') with parseInt on each part, for the addresses of this model.
Octets(ip) ==
  CASE ip = "10.5.5.5" -> <<10, 5, 5, 5>>
    [] ip = "10.0.0.0" -> <<10, 0, 0, 0>>
    [] ip = "192.168.1.5" -> <<192, 168, 1, 5>>
    [] ip = "192.168.1.4" -> <<192, 168, 1, 4>>
    [] ip = "192.168.129.5" -> <<192, 168, 129, 5>>
    [] ip = "0.0.0.0" -> <<0, 0, 0, 0>>
    [] ip = "11.0.0.0" -> <<11, 0, 0, 0>>
    [] ip = "138.0.0.0" -> <<138, 0, 0, 0>>
    [] ip = "255.255.255.255" -> <<255, 255, 255, 255>>
    [] OTHER -> <<>>

Pow2(n) == 2 ^ n
\* A 32-bit word is kept as two 16-bit halves.
Half == Pow2(16)

\* CidrUtils.isValidIpAddress: four octets, each 0..255.
isValidIpAddress(ip) ==
  /\ Len(Octets(ip)) = 4
  /\ \A i \in 1..4 : Octets(ip)[i] \in 0..255

\* ipToNumber: parts.reduce((acc, part) => (acc << 8) + num, 0) >>> 0
ipToNumber(ip) ==
  LET p == Octets(ip) IN [hi |-> (p[1] * 256 + p[2]) % Half, lo |-> (p[3] * 256 + p[4]) % Half]

\* (0xFFFFFFFF << (32 - prefix)) >>> 0; a JavaScript shift count is taken mod 32.
CidrMask(prefix) ==
  LET shift == (32 - prefix) % 32 IN
  IF shift >= 16 THEN [hi |-> Half - Pow2(shift - 16), lo |-> 0]
  ELSE [hi |-> Half - 1, lo |-> Half - Pow2(shift)]

\* x & mask for a mask of the form 1..10..0
AndMask(x, mask) ==
  [hi |-> x.hi - (x.hi % (Half - mask.hi)), lo |-> x.lo - (x.lo % (Half - mask.lo))]

\* RequestContextManager.isIpInCidr
isIpInCidr(ip, cidr) ==
  /\ cidr.prefix \in 0..32
  /\ isValidIpAddress(ip) /\ isValidIpAddress(cidr.network)
  /\ AndMask(ipToNumber(ip), CidrMask(cidr.prefix))
       = AndMask(ipToNumber(cidr.network), CidrMask(cidr.prefix))

\* RequestContextManager.isIpBlacklisted, on the list the context holds.
isIpBlacklisted(cidrList, ip) ==
  \E i \in 1..Len(cidrList) : isIpInCidr(ip, cidrList[i])

\* extractSourceIpsFromPolicy: the valid source IPs of the policy's rules,
\* or none when the policy cannot be read.
extractSourceIps(r) ==
  IF r.err # "ok" THEN {}
  ELSE { r.policy.rules[i].ip : i \in { j \in 1..Len(r.policy.rules) :
           r.policy.rules[j].ip # "" /\ isValidIpAddress(r.policy.rules[j].ip) } }

\* ------------------------------------------------------------- validation

\* The elements of a sequence.
Range(seq) == { seq[k] : k \in 1..Len(seq) }

RECURSIVE ByCreated(_, _, _)
\* The contents of the tenant's items `ids`, by the index's sort key Created:
\* descending (ScanIndexForward: false) or ascending.
ByCreated(t, ids, forward) ==
  IF ids = {} THEN <<>>
  ELSE LET first == CHOOSE i \in ids : \A j \in ids :
                      IF forward THEN policies[t][i].Created <= policies[t][j].Created
                      ELSE policies[t][i].Created >= policies[t][j].Created
       IN <<policies[t][first].content>> \o ByCreated(t, ids \ {first}, forward)

\* A query that reads the index in ascending order.
getAllPoliciesOldestFirst(ctx) ==
  ByCreated(ctx.tenantId,
            { i \in PolicyIds : /\ policies[ctx.tenantId][i] # None
                                /\ policies[ctx.tenantId][i].State # "deleted" },
            TRUE)

\* PolicyRepository.getAllPolicies: the items of the TenantID-Created-Index
\* with TenantID = :tenantId whose State is not deleted, most recent first.
getAllPolicies(ctx) ==
  ByCreated(ctx.tenantId,
            { i \in PolicyIds : /\ policies[ctx.tenantId][i] # None
                                /\ policies[ctx.tenantId][i].State # "deleted" },
            FALSE)

\* A comparison of names as they are written.
SameCase(s) == s

\* name.toLowerCase(), for the names of this model.
toLowerCase(s) == IF s = "A" THEN "a" ELSE s

\* issues.push(text) when the check fails; `rule` is the `Rule N:` prefix of the
\* message, 0 for a message about the policy itself.
Push(failed, rule, text) == IF failed THEN <<[rule |-> rule, text |-> text]>> ELSE <<>>

\* The body of policy.rules.forEach((rule, index) => ...), n = index + 1.
RuleIssues(rule, n) ==
  Push(rule.id = "", n, "ID is required")
  \o Push(rule.name = "", n, "Name is required")
  \o Push(rule.action \notin {"allow", "block"}, n, "Action must be 'allow' or 'block'")
  \o Push(rule.user = "" /\ rule.ip = "", n, "Either source user or IP address is required")
  \o Push(rule.domains = "", n, "Destination domains are required")

RECURSIVE RulesIssues(_, _)
\* policy.rules.forEach, from rule n on.
RulesIssues(rules, n) ==
  IF n > Len(rules) THEN <<>> ELSE RuleIssues(rules[n], n) \o RulesIssues(rules, n + 1)

\* A validation that returns at its first failed check.
PolicyIssuesFailFast(policy, operationType, others) ==
  LET all == Push(policy.name = "", 0, "Policy name is required")
             \o Push(policy.description = "", 0, "Policy description is required")
             \o Push(Len(policy.rules) = 0, 0, "Policy must have at least one rule")
             \o RulesIssues(policy.rules, 1)
             \o Push(\E p \in others :
                        /\ p._id # policy._id
                        /\ toLowerCase(p.name) = toLowerCase(policy.name),
                     0, "Policy name already exists")
  IN IF operationType \in {"create", "update"} /\ all # <<>> THEN <<all[1]>> ELSE <<>>

\* The checks validatePolicy makes on a policy it has read, in the order it
\* makes them; `others` are the tenant's policies returned by getAllPolicies.
PolicyIssues(policy, operationType, others) ==
  (IF operationType \in {"create", "update"}
   THEN Push(policy.name = "", 0, "Policy name is required")
        \o Push(policy.description = "", 0, "Policy description is required")
        \o Push(Len(policy.rules) = 0, 0, "Policy must have at least one rule")
        \o RulesIssues(policy.rules, 1)
        \o Push(\E p \in others :
                   /\ p._id # policy._id
                   /\ toLowerCase(p.name) = toLowerCase(policy.name),
                0, "Policy name already exists")
   ELSE <<>>)
  \o Push(operationType = "update" /\ policy.status = "deleted", 0,
          "Cannot update deleted policies")
  \o Push(operationType = "delete" /\ policy.status = "deleted", 0,
          "Policy is already deleted")
  \o Push(operationType \notin {"create", "update", "delete"}, 0,
          "Unknown operation type")

\* A validation that reports no issue whatever it reads.
validatePolicyAccept(ctx, policyId, operationType) == <<>>

\* validatePolicy of the queue processor: the issues it collects.
validatePolicy(ctx, policyId, operationType) ==
  LET r == getPolicyById(ctx, policyId) IN
  IF r.err # "ok" THEN Push(TRUE, 0, "Failed to retrieve policy for validation")
  ELSE PolicyIssues(r.policy, operationType, Range(getAllPolicies(ctx)))

\* ----------------------------------------------------------------- publish

\* A switch whose update case keeps the status it read.
NewStatusKeep(operationType, currentStatus) ==
  CASE operationType = "create" -> "published"
    [] operationType = "update" -> currentStatus
    [] operationType = "delete" -> "deleted"

\* publishPolicy's switch: the status it asks updatePolicy to write.
NewStatus(operationType, currentStatus) ==
  CASE operationType = "create" -> "published"
    [] operationType = "update" ->
         IF currentStatus = "draft" THEN "published" ELSE currentStatus
    [] operationType = "delete" -> "deleted"

\* -------------------------------------------------------------- rule index

\* rule.source.user || rule.source.ip || 'unknown'
sourceIdentifier(rule) ==
  IF rule.user # "" THEN rule.user ELSE IF rule.ip # "" THEN rule.ip ELSE "unknown"

\* The UserPolicyRecord savePolicyRules builds for one rule.
UserPolicyRecord(policy, rule, tenantId, triggeredBy) ==
  [PK |-> <<tenantId, sourceIdentifier(rule), rule.domains>>, SK |-> rule.id,
   TenantID |-> tenantId, RuleName |-> rule.name, Source |-> sourceIdentifier(rule),
   Destination |-> rule.domains, Action |-> rule.action,
   TimeRestrictions |-> rule.time, TrackingConfig |-> rule.track,
   PolicyID |-> policy._id, PolicyName |-> policy.name, CreatedBy |-> triggeredBy]

\* A deletion that removes every entry of the policy.
deletePolicyRulesByPolicy(table, policyId, tenantId) ==
  { e \in table : ~(e.PolicyID = policyId /\ e.TenantID = tenantId) }

\* deletePolicyRules: the deletion is skipped, the table is left as it is.
deletePolicyRules(table, policyId, tenantId) == table

\* savePolicyRules: deletePolicyRules, then one PutRequest per rule.
savePolicyRules(table, policy, tenantId, triggeredBy) ==
  LET cleared == deletePolicyRules(table, policy._id, tenantId)
      puts == { UserPolicyRecord(policy, policy.rules[i], tenantId, triggeredBy) :
                  i \in 1..Len(policy.rules) }
  IN { e \in cleared : ~\E n \in puts : n.PK = e.PK /\ n.SK = e.SK } \cup puts

\* A QueryCommand on the UserPolicies table (partition key PK, sort key SK).
\* The store accepts a key condition only if it tests the partition key for
\* equality; any other key condition is rejected and the caller's catch block
\* throws. `selected` are the entries the condition and the filter select.
Query(table, keyCondition, selected) ==
  IF keyCondition # "PK = :pk"
  THEN [err |-> "Error", items |-> {}]
  ELSE [err |-> "ok", items |-> selected]

\* UserPolicyRepository.getUserPolicies: PK begins with tenantId#userEmail#
getUserPolicies(table, userEmail, tenantId) ==
  Query(table, "begins_with(PK, :pkPrefix)",
        { e \in table : /\ e.PK[1] = tenantId /\ e.PK[2] = userEmail
                        /\ e.TenantID = tenantId })

\* UserPolicyRepository.getUserPoliciesByDomain: PK begins with tenantId# and
\* ends with #domain
getUserPoliciesByDomain(table, domain, tenantId) ==
  Query(table, "begins_with(PK, :tenantPrefix) AND ends_with(PK, :domainSuffix)",
        { e \in table : /\ e.PK[1] = tenantId /\ e.PK[3] = domain
                        /\ e.TenantID = tenantId })

\* ------------------------------------------------------ the queue processor

Min(a, b) == IF a < b THEN a ELSE b

\* The messages a ReceiveMessage may return.
Receivable == { i \in 1..Len(queue) :
                  queue[i].st = "visible" /\ queue[i].rc < MaxReceiveCount }

RECURSIVE Receives(_)
\* The deliveries made so far: the sum of the receive counts.
Receives(i) == IF i = 0 THEN 0 ELSE queue[i].rc + Receives(i - 1)

\* The batches a handler invocation may be given: distinct receivable messages.
Batches ==
  { b \in UNION { [1..n -> Receivable] : n \in 1..Min(BatchSize, Cardinality(Receivable)) } :
      /\ \A i, j \in DOMAIN b : i # j => b[i] # b[j]
      /\ Receives(Len(queue)) + Len(b) <= MaxReceives }

\* RequestContextManager.initializeFromEvent: this.context = {...}
initializeFromEvent(ev) ==
  [tenantId |-> ev.tenantId, username |-> ev.triggeredBy, cidrBlackList |-> <<>>]

\* A policyId, and a string field, that the message body does not have.
NoPolicyId == 0
NoField == ""

\* A validation of the envelope that accepts any eventType.
validateSQSEventAnyType(body) ==
  /\ body.policyId # NoPolicyId /\ body.tenantId # NoField /\ body.triggeredBy # NoField

\* SchemaValidator.validateSQSEvent: SQSEventSchema.parse(body) does not throw.
validateSQSEvent(body) ==
  /\ body.eventType \in {"create", "update", "delete"}
  /\ body.policyId # NoPolicyId /\ body.tenantId # NoField /\ body.triggeredBy # NoField

\* processRecord up to its first await: a body that fails validateSQSEvent
\* throws before the context is initialized and before processPolicyEvent.
NewRec(m) ==
  [m |-> m, ev |-> queue[m].ev,
   pc |-> IF validateSQSEvent(queue[m].ev) THEN "cidr" ELSE "failed",
   steps |-> <<>>,
   outcome |-> IF validateSQSEvent(queue[m].ev) THEN "running" ELSE "error",
   hadBadIp |-> FALSE, issues |-> <<>>, read |-> "none", existing |-> None,
   wrote |-> "none", reverted |-> FALSE, wrongCtx |-> FALSE]

\* handler: event.Records.map(record => processRecord(record)). Each call runs
\* up to its first pending await, so every record's context assignment happens
\* before any record resumes; the static field keeps the last one.
Deliver(batch) ==
  /\ recs = <<>>
  /\ queue' = [i \in 1..Len(queue) |->
                 IF \E k \in DOMAIN batch : batch[k] = i
                 THEN [queue[i] EXCEPT !.st = "inflight", !.rc = @ + 1]
                 ELSE queue[i]]
  /\ LET valid == { k \in DOMAIN batch : validateSQSEvent(queue[batch[k]].ev) } IN
     context' = IF valid = {} THEN context
                ELSE LET k == CHOOSE k \in valid : \A j \in valid : j <= k
                     IN initializeFromEvent(queue[batch[k]].ev)
  /\ recs' = [k \in DOMAIN batch |-> NewRec(batch[k])]
  /\ UNCHANGED <<policies, nextId, intent, cache, index, faults>>
  /\ UNCHANGED apiVars

\* An invocation with one of the batches the delivery bound admits.
HandlerInvoke(batch) == batch \in Batches /\ Deliver(batch)

\* A store call made on behalf of a record uses the static context as it is now.
Touch(rec) ==
  [rec EXCEPT !.wrongCtx = @ \/ context.tenantId # rec.ev.tenantId
                             \/ context.username # rec.ev.triggeredBy]

Step(rec, name) == [rec EXCEPT !.steps = Append(@, name)]

Settle(rec, pc, outcome) ==
  [rec EXCEPT !.pc = pc, !.outcome = outcome, !.existing = None]

\* A validity test without the TTL.
isCacheValidForever(t) == cache[t].loaded

\* CidrCache.isCacheValid: a load is recorded and its age is below the TTL.
isCacheValid(t) == cache[t].loaded /\ cache[t].age < CACHE_TTL

\* A refresh that caches nothing when the load fails.
refreshCacheKeepEmpty(t, fail) ==
  IF fail THEN NotCached
  ELSE [loaded |-> TRUE, list |-> BlacklistStore(t), age |-> 0]

\* CidrCache.refreshCache: the tenant's entry after the load. A load that
\* fails caches the empty list, with the time of the attempt.
refreshCache(t, fail) ==
  [loaded |-> TRUE, list |-> IF fail THEN <<>> ELSE BlacklistStore(t), age |-> 0]

\* loadCidrBlacklist resumes: CidrCache.getCidrList(event tenant), then
\* this.context.cidrBlackList = cidrList on the context that is current now.
RecCidr(i, fail) ==
  /\ i \in DOMAIN recs /\ recs[i].pc = "cidr"
  /\ LET t == recs[i].ev.tenantId IN
     IF isCacheValid(t)
     THEN /\ fail = FALSE
          /\ context' = [context EXCEPT !.cidrBlackList = cache[t].list]
          /\ UNCHANGED <<cache, faults>>
     ELSE /\ fail => faults < MaxFaults
          /\ faults' = IF fail THEN faults + 1 ELSE faults
          /\ cache' = [cache EXCEPT ![t] = refreshCache(t, fail)]
          /\ context' = [context EXCEPT !.cidrBlackList = refreshCache(t, fail).list]
  /\ recs' = [recs EXCEPT ![i].pc = "gate"]
  /\ UNCHANGED <<policies, nextId, queue, intent, index>>
  /\ UNCHANGED apiVars

\* checkSourceIpBlacklist: step 0 of processPolicyEvent.
RecGate(i) ==
  /\ i \in DOMAIN recs /\ recs[i].pc = "gate"
  /\ LET rec == recs[i]
         ips == extractSourceIps(getPolicyById(context, rec.ev.policyId))
         blocked == \E ip \in ips : isIpBlacklisted(context.cidrBlackList, ip)
         own == getPolicyById([tenantId |-> rec.ev.tenantId], rec.ev.policyId)
         bad == \E ip \in extractSourceIps(own) :
                   isIpBlacklisted(cache[rec.ev.tenantId].list, ip)
         r1 == [Step(Touch(rec), "gate") EXCEPT !.hadBadIp = bad]
     IN recs' = [recs EXCEPT ![i] =
                   IF blocked THEN Settle(r1, "blocked", "blocked")
                   ELSE [r1 EXCEPT !.pc = "validate"]]
  /\ UNCHANGED <<policies, nextId, queue, intent, context, cache, index, faults>>
  /\ UNCHANGED apiVars

\* Step 1: validatePolicy; a non-empty issues list throws.
RecValidate(i) ==
  /\ i \in DOMAIN recs /\ recs[i].pc = "validate"
  /\ LET rec == recs[i]
         issues == validatePolicy(context, rec.ev.policyId, rec.ev.eventType)
         r1 == [Step(Touch(rec), "validate") EXCEPT !.issues = issues]
     IN recs' = [recs EXCEPT ![i] =
                   IF issues = <<>> THEN [r1 EXCEPT !.pc = "pubRead"]
                   ELSE Settle(r1, "failed", "validation-failed")]
  /\ UNCHANGED <<policies, nextId, queue, intent, context, cache, index, faults>>
  /\ UNCHANGED apiVars

\* A catch block that lets the workflow go on to the index step.
PublishFailedContinue(rec) == [rec EXCEPT !.pc = "idxRead", !.existing = None]

\* A catch block that writes draft back for every event type.
PublishFailedRevertAll(rec) == [rec EXCEPT !.pc = "revRead", !.existing = None]

\* publishPolicy's catch block: the create path tries to write draft back.
PublishFailed(rec) ==
  IF rec.ev.eventType = "create"
  THEN [rec EXCEPT !.pc = "revRead", !.existing = None]
  ELSE Settle(rec, "failed", "publish-failed")

\* Step 2: publishPolicy reads the policy.
RecPubRead(i) ==
  /\ i \in DOMAIN recs /\ recs[i].pc = "pubRead"
  /\ LET rec == Step(Touch(recs[i]), "publish")
         r == getPolicyById(context, rec.ev.policyId)
     IN recs' = [recs EXCEPT ![i] =
                   IF r.err = "ok"
                   THEN [rec EXCEPT !.pc = "pubUpdRead", !.read = r.policy.status]
                   ELSE PublishFailed(rec)]
  /\ UNCHANGED <<policies, nextId, queue, intent, context, cache, index, faults>>
  /\ UNCHANGED apiVars

\* publishPolicy calls updatePolicy, which reads the policy again.
RecPubUpdRead(i) ==
  /\ i \in DOMAIN recs /\ recs[i].pc = "pubUpdRead"
  /\ LET rec == Touch(recs[i])
         r == getPolicyById(context, rec.ev.policyId)
     IN recs' = [recs EXCEPT ![i] =
                   IF r.err = "ok"
                   THEN [rec EXCEPT !.pc = "pubUpdWrite", !.existing = r.policy]
                   ELSE PublishFailed(rec)]
  /\ UNCHANGED <<policies, nextId, queue, intent, context, cache, index, faults>>
  /\ UNCHANGED apiVars

\* updatePolicy's conditional UpdateCommand with status = newStatus.
RecPubUpdWrite(i, fail) ==
  /\ i \in DOMAIN recs /\ recs[i].pc = "pubUpdWrite"
  /\ LET rec == Touch(recs[i])
         id == rec.ev.policyId
         updates == [status |-> NewStatus(rec.ev.eventType, rec.read)]
     IN IF fail
        THEN /\ faults < MaxFaults
             /\ faults' = faults + 1
             /\ recs' = [recs EXCEPT ![i] = PublishFailed(rec)]
             /\ UNCHANGED <<policies, intent>>
        ELSE IF WriteCondition(context, id)
        THEN /\ policies' = PutContent(context.tenantId, id,
                              MergePolicy(rec.existing, updates, id, context.username))
             /\ intent' = NoteIntent(id, updates)
             /\ recs' = [recs EXCEPT ![i] =
                           [rec EXCEPT !.pc = "idxRead", !.wrote = updates.status,
                                       !.existing = None]]
             /\ UNCHANGED faults
        ELSE /\ recs' = [recs EXCEPT ![i] = PublishFailed(rec)]
             /\ UNCHANGED <<policies, intent, faults>>
  /\ UNCHANGED <<nextId, queue, context, cache, index>>
  /\ UNCHANGED apiVars

\* The catch block's updatePolicy(status: 'draft') reads the policy.
RecRevRead(i) ==
  /\ i \in DOMAIN recs /\ recs[i].pc = "revRead"
  /\ LET rec == Touch(recs[i])
         r == getPolicyById(context, rec.ev.policyId)
     IN recs' = [recs EXCEPT ![i] =
                   IF r.err = "ok"
                   THEN [rec EXCEPT !.pc = "revWrite", !.existing = r.policy]
                   ELSE Settle(rec, "failed", "publish-failed")]
  /\ UNCHANGED <<policies, nextId, queue, intent, context, cache, index, faults>>
  /\ UNCHANGED apiVars

\* The catch block's conditional write of status draft; its own failure is swallowed.
RecRevWrite(i, fail) ==
  /\ i \in DOMAIN recs /\ recs[i].pc = "revWrite"
  /\ LET rec == Touch(recs[i])
         id == rec.ev.policyId
         updates == [status |-> "draft"]
     IN IF fail
        THEN /\ faults < MaxFaults
             /\ faults' = faults + 1
             /\ recs' = [recs EXCEPT ![i] = Settle(rec, "failed", "publish-failed")]
             /\ UNCHANGED <<policies, intent>>
        ELSE IF WriteCondition(context, id)
        THEN /\ policies' = PutContent(context.tenantId, id,
                              MergePolicy(rec.existing, updates, id, context.username))
             /\ intent' = NoteIntent(id, updates)
             /\ recs' = [recs EXCEPT ![i] =
                           Settle([rec EXCEPT !.reverted = TRUE], "failed", "publish-failed")]
             /\ UNCHANGED faults
        ELSE /\ recs' = [recs EXCEPT ![i] = Settle(rec, "failed", "publish-failed")]
             /\ UNCHANGED <<policies, intent, faults>>
  /\ UNCHANGED <<nextId, queue, context, cache, index>>
  /\ UNCHANGED apiVars

\* Step 3 reads the policy for the UserPolicies update.
RecIdxRead(i) ==
  /\ i \in DOMAIN recs /\ recs[i].pc = "idxRead"
  /\ LET rec == Touch(recs[i])
         r == getPolicyById(context, rec.ev.policyId)
     IN recs' = [recs EXCEPT ![i] =
                   IF r.err = "ok"
                   THEN [rec EXCEPT !.pc = "idxWrite", !.existing = r.policy]
                   ELSE Settle(rec, "failed", "error")]
  /\ UNCHANGED <<policies, nextId, queue, intent, context, cache, index, faults>>
  /\ UNCHANGED apiVars

\* A return that deletes the batch's messages whether or not a record failed.
HandlerReturnDeleteAll ==
  /\ recs # <<>>
  /\ \A i \in DOMAIN recs : recs[i].pc \in {"done", "blocked", "failed"}
  /\ queue' = [i \in 1..Len(queue) |->
                 IF \E k \in DOMAIN recs : recs[k].m = i
                 THEN [queue[i] EXCEPT !.st = "deleted"]
                 ELSE queue[i]]
  /\ recs' = <<>>
  /\ UNCHANGED <<policies, nextId, intent, context, cache, index, faults>>
  /\ UNCHANGED apiVars

\* Step 3's switch: savePolicyRules for create and update, deletePolicyRules for
\* delete. savePolicyRules throws when the store rejects its BatchWriteCommand.
RecIdxWrite(i, fail) ==
  /\ i \in DOMAIN recs /\ recs[i].pc = "idxWrite"
  /\ LET rec == recs[i] IN
     IF fail
     THEN /\ rec.ev.eventType \in {"create", "update"}
          /\ faults < MaxFaults
          /\ faults' = faults + 1
          /\ recs' = [recs EXCEPT ![i] = Settle(Step(rec, "index"), "failed", "error")]
          /\ UNCHANGED index
     ELSE /\ index' = IF rec.ev.eventType \in {"create", "update"}
                      THEN savePolicyRules(index, rec.existing, rec.ev.tenantId,
                                           rec.ev.triggeredBy)
                      ELSE deletePolicyRules(index, rec.ev.policyId, rec.ev.tenantId)
          /\ recs' = [recs EXCEPT ![i] = Settle(Step(rec, "index"), "done", "done")]
          /\ UNCHANGED faults
  /\ UNCHANGED <<policies, nextId, queue, intent, context, cache>>
  /\ UNCHANGED apiVars

Settled(rec) == rec.pc \in {"done", "blocked", "failed"}

\* A return that acknowledges each message on its own: the messages of the
\* records that did not fail are deleted, the others become visible again.
HandlerReturnPartial ==
  /\ recs # <<>>
  /\ \A i \in DOMAIN recs : recs[i].pc \in {"done", "blocked", "failed"}
  /\ queue' = [i \in 1..Len(queue) |->
                 IF \E k \in DOMAIN recs : recs[k].m = i /\ recs[k].pc = "failed"
                 THEN [queue[i] EXCEPT !.st = "visible"]
                 ELSE IF \E k \in DOMAIN recs : recs[k].m = i
                 THEN [queue[i] EXCEPT !.st = "deleted"]
                 ELSE queue[i]]
  /\ recs' = <<>>
  /\ UNCHANGED <<policies, nextId, intent, context, cache, index, faults>>
  /\ UNCHANGED apiVars

\* Promise.all settles: the handler returns, or rethrows when a record failed.
\* The poller deletes the batch's messages only when the handler returned.
HandlerReturn ==
  /\ recs # <<>>
  /\ \A i \in DOMAIN recs : Settled(recs[i])
  /\ LET threw == \E i \in DOMAIN recs : recs[i].pc = "failed" IN
     queue' = [i \in 1..Len(queue) |->
                 IF \E k \in DOMAIN recs : recs[k].m = i
                 THEN [queue[i] EXCEPT !.st = IF threw THEN "visible" ELSE "deleted"]
                 ELSE queue[i]]
  /\ recs' = <<>>
  /\ UNCHANGED <<policies, nextId, intent, context, cache, index, faults>>
  /\ UNCHANGED apiVars

\* A redrive policy that moves a message after its first failed delivery.
RedriveEarly(i) ==
  /\ i \in 1..Len(queue)
  /\ queue[i].st = "visible" /\ queue[i].rc >= 1
  /\ queue' = [queue EXCEPT ![i].st = "dlq"]
  /\ UNCHANGED <<policies, nextId, intent, context, cache, recs, index, faults>>
  /\ UNCHANGED apiVars

\* The redrive policy: a message received MaxReceiveCount times goes to the DLQ.
Redrive(i) ==
  /\ i \in 1..Len(queue)
  /\ queue[i].st = "visible" /\ queue[i].rc >= MaxReceiveCount
  /\ queue' = [queue EXCEPT ![i].st = "dlq"]
  /\ UNCHANGED <<policies, nextId, intent, context, cache, recs, index, faults>>
  /\ UNCHANGED apiVars

\* ------------------------------------------------------------ specification

Init ==
  /\ policies = [t \in Tenants |-> [id \in PolicyIds |-> None]]
  /\ nextId = 1
  /\ queue = <<>>
  /\ api = [c \in Clients |-> Idle]
  /\ last = NoResponse
  /\ intent = [id \in PolicyIds |-> [rules |-> <<>>, status |-> "none"]]
  /\ context = [tenantId |-> "none", username |-> "none", cidrBlackList |-> <<>>]
  /\ cache = [t \in Tenants |-> NotCached]
  /\ recs = <<>>
  /\ index = {}
  /\ faults = 0

\* The CRUD lambda, with the invocations of `cs` running concurrently.
ApiNext(cs) ==
  \/ \E c \in cs, t \in Tenants, id \in PolicyIds : ApiGet(c, t, id)
  \/ \E c \in cs, t \in Tenants, body \in CreateBodies : ApiCreate(c, t, body)
  \/ \E c \in cs, t \in Tenants, id \in PolicyIds, u \in UpdateBodies :
       ApiUpdateRead(c, t, id, u)
  \/ \E c \in cs : ApiUpdateWrite(c)
  \/ \E c \in cs, t \in Tenants, id \in PolicyIds : ApiDeleteRead(c, t, id)
  \/ \E c \in cs : ApiDeleteWrite(c)
  \/ \E c \in cs : ApiSend(c)
  \/ ApiRespond

\* The queue, the event source mapping and the queue processor lambda.
WorkerNext ==
  \/ \E b \in Batches : HandlerInvoke(b)
  \/ \E i \in 1..BatchSize, fail \in BOOLEAN : RecCidr(i, fail)
  \/ \E i \in 1..BatchSize : RecGate(i)
  \/ \E i \in 1..BatchSize : RecValidate(i)
  \/ \E i \in 1..BatchSize : RecPubRead(i)
  \/ \E i \in 1..BatchSize : RecPubUpdRead(i)
  \/ \E i \in 1..BatchSize, fail \in BOOLEAN : RecPubUpdWrite(i, fail)
  \/ \E i \in 1..BatchSize : RecRevRead(i)
  \/ \E i \in 1..BatchSize, fail \in BOOLEAN : RecRevWrite(i, fail)
  \/ \E i \in 1..BatchSize : RecIdxRead(i)
  \/ \E i \in 1..BatchSize, fail \in BOOLEAN : RecIdxWrite(i, fail)
  \/ HandlerReturn
  \/ \E i \in 1..MaxMsgs : Redrive(i)

\* One CRUD request at a time next to the queue processor.
Next == ApiNext({"c1"}) \/ WorkerNext

Spec == Init /\ [][Next]_vars

\* Concurrent CRUD requests; the queue is not consumed.
NextApi == ApiNext(Clients)

SpecApi == Init /\ [][NextApi]_vars

\* Any batch of receivable messages, whatever has been delivered before.
AnyBatches ==
  { b \in UNION { [1..n -> Receivable] : n \in 1..Min(BatchSize, Cardinality(Receivable)) } :
      \A i, j \in DOMAIN b : i # j => b[i] # b[j] }

HandlerInvokeAny(batch) == batch \in AnyBatches /\ Deliver(batch)

\* Policies are created and their events processed; no store call fails, and
\* a message is delivered again until maxReceiveCount sends it to the DLQ.
NextLive ==
  \/ \E t \in Tenants, body \in CreateBodies : ApiCreate("c1", t, body)
  \/ ApiSend("c1")
  \/ ApiRespond
  \/ \E b \in AnyBatches : HandlerInvokeAny(b)
  \/ \E i \in 1..BatchSize : RecCidr(i, FALSE)
  \/ \E i \in 1..BatchSize : RecGate(i)
  \/ \E i \in 1..BatchSize : RecValidate(i)
  \/ \E i \in 1..BatchSize : RecPubRead(i)
  \/ \E i \in 1..BatchSize : RecPubUpdRead(i)
  \/ \E i \in 1..BatchSize : RecPubUpdWrite(i, FALSE)
  \/ \E i \in 1..BatchSize : RecIdxRead(i)
  \/ \E i \in 1..BatchSize : RecIdxWrite(i, FALSE)
  \/ HandlerReturn
  \/ \E i \in 1..MaxMsgs : Redrive(i)

\* Every request and every delivery that can proceed does.
SpecLive == Init /\ [][NextLive]_vars /\ WF_vars(NextLive)

\* ------------------------------------------- validation of stored policies

\* Rules as the store can hold them: the worker validates whatever
\* PolicyContent it reads.
RuleNoSource == [id |-> "r3", name |-> "no source", user |-> "", ip |-> "",
                 domains |-> "y.com", action |-> "allow",
                 time |-> "always", track |-> "log"]
RuleBoth == [id |-> "r4", name |-> "both", user |-> "alice", ip |-> "192.168.1.5",
             domains |-> "fb.com", action |-> "block",
             time |-> "always", track |-> "log"]
RuleNoDomain == [id |-> "r5", name |-> "no domain", user |-> "bob", ip |-> "",
                 domains |-> "", action |-> "deny",
                 time |-> "always", track |-> "log"]

\* The stored item of policy `id` of tenant `t`.
StoredItem(t, id, name, description, rules, state) ==
  [TenantID |-> t, State |-> state, Created |-> id,
   content |-> [_id |-> id, name |-> name, description |-> description,
                status |-> "draft", rules |-> rules,
                createdBy |-> UserOf(t), updatedBy |-> UserOf(t)]]

\* The policy under validation: policy 1 of tenant t1.
ValidatedItems ==
  { StoredItem("t1", 1, name, description, rules, "created") :
      name \in {"a", "A", ""}, description \in {"d", ""}, rules \in { <<>>, <<RuleAlice>>, <<RuleBadIp>>, <<RuleBoth>>, <<RuleNoSource>>,
                  <<RuleNoDomain>>, <<RuleNoSource, RuleNoDomain>>,
                  <<RuleAlice, RuleNoSource>> } }

\* The other policy of the store: policy 2, of either tenant, live or deleted.
OtherItems ==
  { StoredItem(t, 2, name, "d", <<RuleBob>>, state) :
      t \in Tenants, name \in {"a", "b"}, state \in {"created", "deleted"} }

\* A store holding policy 1 of t1 and at most one other policy, and one
\* create or update event for policy 1 on the queue.
InitValidate ==
  /\ \E item \in ValidatedItems, t \in Tenants, other \in OtherItems \cup {None} :
       /\ other # None => other.TenantID = t
       /\ policies = [u \in Tenants |-> [id \in PolicyIds |->
                        IF u = "t1" /\ id = 1 THEN item
                        ELSE IF u = t /\ id = 2 THEN other
                        ELSE None]]
       /\ intent = [id \in PolicyIds |->
                      IF id = 1 THEN [rules |-> item.content.rules, status |-> "draft"]
                      ELSE [rules |-> <<>>, status |-> "none"]]
  /\ \E eventType \in {"create", "update"} :
       queue = <<[ev |-> Envelope(ApiContext("t1"), eventType, 1), rc |-> 0,
                  st |-> "visible"]>>
  /\ nextId = MaxPolicies + 1
  /\ api = [c \in Clients |-> Idle]
  /\ last = NoResponse
  /\ context = [tenantId |-> "none", username |-> "none", cidrBlackList |-> <<>>]
  /\ cache = [t \in Tenants |-> NotCached]
  /\ recs = <<>>
  /\ index = {}
  /\ faults = 0

\* The queue processor alone; no store call fails.
NextValidate ==
  \/ \E b \in AnyBatches : HandlerInvokeAny(b)
  \/ \E i \in 1..BatchSize : RecCidr(i, FALSE)
  \/ \E i \in 1..BatchSize : RecGate(i)
  \/ \E i \in 1..BatchSize : RecValidate(i)
  \/ \E i \in 1..BatchSize : RecPubRead(i)
  \/ \E i \in 1..BatchSize : RecPubUpdRead(i)
  \/ \E i \in 1..BatchSize : RecPubUpdWrite(i, FALSE)
  \/ \E i \in 1..BatchSize : RecIdxRead(i)
  \/ \E i \in 1..BatchSize : RecIdxWrite(i, FALSE)
  \/ HandlerReturn
  \/ \E i \in 1..MaxMsgs : Redrive(i)

SpecValidate == InitValidate /\ [][NextValidate]_vars

\* ------------------------------------------------------ message envelopes

\* Message bodies as the queue can hold them.
Envelopes ==
  [eventType : {"create", "update", "delete", "invalid"}, policyId : {1, NoPolicyId},
   tenantId : {"t1", NoField}, triggeredBy : {"u1", NoField}]

\* A store holding one valid policy, and a queue holding one arbitrary
\* message alone, before or after a create event for the policy.
InitEnvelope ==
  /\ policies = [u \in Tenants |-> [id \in PolicyIds |->
                   IF u = "t1" /\ id = 1
                   THEN StoredItem("t1", 1, "a", "d", <<RuleAlice>>, "created")
                   ELSE None]]
  /\ intent = [id \in PolicyIds |->
                 IF id = 1 THEN [rules |-> <<RuleAlice>>, status |-> "draft"]
                 ELSE [rules |-> <<>>, status |-> "none"]]
  /\ \E body \in Envelopes :
       LET msg == [ev |-> body, rc |-> 0, st |-> "visible"]
           good == [ev |-> Envelope(ApiContext("t1"), "create", 1), rc |-> 0,
                    st |-> "visible"]
       IN queue \in {<<msg>>, <<msg, good>>, <<good, msg>>}
  /\ nextId = MaxPolicies + 1
  /\ api = [c \in Clients |-> Idle]
  /\ last = NoResponse
  /\ context = [tenantId |-> "none", username |-> "none", cidrBlackList |-> <<>>]
  /\ cache = [t \in Tenants |-> NotCached]
  /\ recs = <<>>
  /\ index = {}
  /\ faults = 0

\* The queue processor alone, on the messages of InitEnvelope.
SpecEnvelope == InitEnvelope /\ [][NextValidate]_vars

\* ------------------------------------------------------- the blacklist cache

\* A minute passes between two invocations: every cached entry ages; an
\* entry that has reached the TTL stays expired.
Tick ==
  /\ recs = <<>>
  /\ \E t \in Tenants : isCacheValid(t)
  /\ cache' = [t \in Tenants |->
                 IF isCacheValid(t) THEN [cache[t] EXCEPT !.age = @ + 1] ELSE cache[t]]
  /\ UNCHANGED <<policies, nextId, queue, intent, context, recs, index, faults>>
  /\ UNCHANGED apiVars

\* CidrCache.clearTenantCache
clearTenantCache(t) ==
  /\ recs = <<>>
  /\ cache[t] # NotCached
  /\ cache' = [cache EXCEPT ![t] = NotCached]
  /\ UNCHANGED <<policies, nextId, queue, intent, context, recs, index, faults>>
  /\ UNCHANGED apiVars

\* A cold container: nothing cached, and two events on the queue. The events
\* are of the two tenants; policy 1 of t1 has a source IP in t1's blacklist
\* store, policy 2 of t2 has none.
InitCache ==
  /\ policies = [u \in Tenants |-> [id \in PolicyIds |->
                   IF u = "t1" /\ id = 1
                   THEN StoredItem("t1", 1, "ip", "d", <<RuleBadIp>>, "created")
                   ELSE IF u = "t2" /\ id = 2
                   THEN StoredItem("t2", 2, "a", "d", <<RuleAlice>>, "created")
                   ELSE None]]
  /\ intent = [id \in PolicyIds |->
                 IF id = 1 THEN [rules |-> <<RuleBadIp>>, status |-> "draft"]
                 ELSE IF id = 2 THEN [rules |-> <<RuleAlice>>, status |-> "draft"]
                 ELSE [rules |-> <<>>, status |-> "none"]]
  /\ \E e1, e2 \in { Envelope(ApiContext("t1"), "create", 1),
                      Envelope(ApiContext("t1"), "update", 1),
                      Envelope(ApiContext("t2"), "create", 2) } :
       queue = <<[ev |-> e1, rc |-> 0, st |-> "visible"],
                 [ev |-> e2, rc |-> 0, st |-> "visible"]>>
  /\ nextId = MaxPolicies + 1
  /\ api = [c \in Clients |-> Idle]
  /\ last = NoResponse
  /\ context = [tenantId |-> "none", username |-> "none", cidrBlackList |-> <<>>]
  /\ cache = [t \in Tenants |-> NotCached]
  /\ recs = <<>>
  /\ index = {}
  /\ faults = 0

\* The queue processor while time passes; a load of the blacklist may fail.
NextCache ==
  \/ \E b \in AnyBatches : HandlerInvokeAny(b)
  \/ \E i \in 1..BatchSize, fail \in BOOLEAN : RecCidr(i, fail)
  \/ \E i \in 1..BatchSize : RecGate(i)
  \/ \E i \in 1..BatchSize : RecValidate(i)
  \/ \E i \in 1..BatchSize : RecPubRead(i)
  \/ \E i \in 1..BatchSize : RecPubUpdRead(i)
  \/ \E i \in 1..BatchSize : RecPubUpdWrite(i, FALSE)
  \/ \E i \in 1..BatchSize : RecIdxRead(i)
  \/ \E i \in 1..BatchSize : RecIdxWrite(i, FALSE)
  \/ HandlerReturn
  \/ \E i \in 1..MaxMsgs : Redrive(i)
  \/ Tick

SpecCache == InitCache /\ [][NextCache]_vars

\* ------------------------------------------------------------ CidrManager

\* CidrUtils.isIpInCidrBlock: the same computation as the context's isIpInCidr.
isIpInCidrBlock(ip, cidr) == isIpInCidr(ip, cidr)

\* CidrUtils.isIpInAnyCidrBlock
isIpInAnyCidrBlock(ip, cidrList) ==
  /\ isValidIpAddress(ip)
  /\ \E i \in 1..Len(cidrList) : isIpInCidrBlock(ip, cidrList[i])

\* The addresses asked about and the CIDR blocks a cached list can hold.
IpInputs ==
  {"10.5.5.5", "10.0.0.0", "11.0.0.0", "138.0.0.0", "192.168.1.5", "192.168.1.4",
   "192.168.129.5", "0.0.0.0", "255.255.255.255"}
CidrInputs ==
  [network : {"10.0.0.0", "192.168.1.5", "0.0.0.0"}, prefix : {0, 1, 7, 8, 16, 17, 31, 32}]

\* CidrManager.isIpBlacklisted(tenantId, ip): getCidrBlacklist -- the cached
\* list, a fresh load, or [] when the load throws -- then isIpInAnyCidrBlock.
ManagerIsIpBlacklisted(t, ip, fail) ==
  /\ last = NoResponse /\ recs = <<>>
  /\ fail => ~isCacheValid(t) /\ faults < MaxFaults
  /\ faults' = IF fail THEN faults + 1 ELSE faults
  /\ cache' = IF isCacheValid(t) THEN cache
              ELSE [cache EXCEPT ![t] = refreshCache(t, fail)]
  /\ LET cidrList == IF isCacheValid(t) THEN cache[t].list
                     ELSE refreshCache(t, fail).list
     IN last' = Returned("isIpBlacklisted", t, 0,
                         IF cidrList # <<>> /\ isIpInAnyCidrBlock(ip, cidrList)
                         THEN "true" ELSE "false",
                         [ip |-> ip])
  /\ UNCHANGED <<policies, nextId, queue, api, intent, context, recs, index>>

\* A container whose cache holds, for each tenant, nothing or one block loaded
\* just now.
InitCidr ==
  /\ policies = [u \in Tenants |-> [id \in PolicyIds |-> None]]
  /\ intent = [id \in PolicyIds |-> [rules |-> <<>>, status |-> "none"]]
  /\ queue = <<>>
  /\ nextId = 1
  /\ api = [c \in Clients |-> Idle]
  /\ last = NoResponse
  /\ context = [tenantId |-> "none", username |-> "none", cidrBlackList |-> <<>>]
  /\ \E c1 \in CidrInputs, e2 \in {NotCached,
                                   [loaded |-> TRUE, age |-> 0,
                                    list |-> <<[network |-> "10.0.0.0", prefix |-> 8]>>]} :
       cache = [t \in Tenants |->
                  IF t = "t1" THEN [loaded |-> TRUE, list |-> <<c1>>, age |-> 0] ELSE e2]
  /\ recs = <<>>
  /\ index = {}
  /\ faults = 0

\* Calls of CidrManager.isIpBlacklisted while time passes and entries are cleared.
NextCidr ==
  \/ \E t \in Tenants, ip \in IpInputs, fail \in BOOLEAN : ManagerIsIpBlacklisted(t, ip, fail)
  \/ ApiRespond
  \/ Tick
  \/ \E t \in Tenants : clearTenantCache(t)

SpecCidr == InitCidr /\ [][NextCidr]_vars

\* ------------------------------------------------------ updatePolicyState

\* ConditionExpression of updatePolicyState:
\* attribute_exists(PK) AND TenantID = :tenantId
StateWriteCondition(ctx, id) ==
  LET item == GetItem(ctx.tenantId, id) IN
  item # None /\ item.TenantID = ctx.tenantId

\* PolicyRepository.updatePolicyState: SET #state = :newState under the
\* condition; ConditionalCheckFailedException becomes NotFoundError.
updatePolicyState(t, id, newState) ==
  /\ last = NoResponse
  /\ IF StateWriteCondition(ApiContext(t), id)
     THEN /\ policies' = [policies EXCEPT ![t][id].State = newState]
          /\ last' = Returned("updatePolicyState", t, id, "ok", None)
     ELSE /\ last' = Returned("updatePolicyState", t, id, "NotFoundError", None)
          /\ UNCHANGED policies
  /\ UNCHANGED <<nextId, queue, api, intent>>
  /\ UNCHANGED workerVars

\* GET /policies: getAllPolicies of the caller's tenant, and its count.
ApiList(c, t) ==
  /\ api[c] = Idle /\ last = NoResponse
  /\ LET all == getAllPolicies(ApiContext(t)) IN
     last' = Returned("list", t, 0, "ok", [policies |-> all, count |-> Len(all)])
  /\ UNCHANGED <<policies, nextId, queue, api, intent>>
  /\ UNCHANGED workerVars

\* The CRUD lambda with its list route, and callers of updatePolicyState, on
\* one store.
NextStore ==
  \/ ApiNext({"c1"})
  \/ \E t \in Tenants : ApiList("c1", t)
  \/ \E t \in Tenants, id \in PolicyIds, newState \in {"created", "in-publish", "published", "deleted"} :
       updatePolicyState(t, id, newState)

SpecStore == Init /\ [][NextStore]_vars

\* ------------------------------------------- CRUD requests with failing calls

\* POST /policies when createPolicy's PutCommand throws: the repository
\* rethrows 'Failed to create policy' and the handler never reaches the send.
ApiCreateFailed(c, t, body) ==
  /\ api[c] = Idle /\ last = NoResponse
  /\ nextId <= MaxPolicies
  /\ faults < MaxFaults
  /\ faults' = faults + 1
  /\ last' = Returned("create", t, nextId, "Error", None)
  /\ UNCHANGED <<policies, nextId, queue, api, intent>>
  /\ UNCHANGED <<context, cache, recs, index>>

\* publishPolicyEvent when SendMessage throws: 'Failed to publish policy
\* event' goes to the handler's catch, after the store write was committed.
ApiSendFailed(c) ==
  /\ api[c].pc = "send" /\ last = NoResponse
  /\ faults < MaxFaults
  /\ faults' = faults + 1
  /\ last' = Returned(api[c].op, api[c].t, api[c].id, "Error", None)
  /\ api' = [api EXCEPT ![c] = Idle]
  /\ UNCHANGED <<policies, nextId, queue, intent>>
  /\ UNCHANGED <<context, cache, recs, index>>

NextPublish ==
  \/ ApiNext(Clients)
  \/ \E c \in Clients, t \in Tenants, body \in CreateBodies : ApiCreateFailed(c, t, body)
  \/ \E c \in Clients : ApiSendFailed(c)

SpecPublish == Init /\ [][NextPublish]_vars

\* ------------------------------------------------- the rule index read API

\* UserPolicyRepository.getAllUserPolicies: a Scan filtered on PK beginning
\* with tenantId#
getAllUserPolicies(table, tenantId) ==
  [err |-> "ok", items |-> { e \in table : e.PK[1] = tenantId }]

\* The query parameters of a request; "" is a parameter that was not given.
UserParams == {"", "alice", "bob"}
DomainParams == {"", "fb.com", "x.com"}

\* routeRequest of the user-policies handler, as the repository result it
\* returns for the given query parameters.
routeRequest(ctx, userEmail, domain) ==
  IF userEmail # "" /\ domain # ""
  THEN LET all == getUserPolicies(index, userEmail, ctx.tenantId) IN
       [all EXCEPT !.items = { e \in all.items : e.Destination = domain }]
  ELSE IF userEmail # "" THEN getUserPolicies(index, userEmail, ctx.tenantId)
  ELSE IF domain # "" THEN getUserPoliciesByDomain(index, domain, ctx.tenantId)
  ELSE getAllUserPolicies(index, ctx.tenantId)

\* GET /user-policies?user=..&domain=..: the handler around routeRequest.
IndexRead(t, userEmail, domain) ==
  /\ last = NoResponse
  /\ LET r == routeRequest(ApiContext(t), userEmail, domain) IN
     last' = Returned("userPolicies", t, 0, r.err,
                      IF r.err = "ok"
                      THEN [userPolicies |-> r.items, count |-> Cardinality(r.items)]
                      ELSE None)
  /\ UNCHANGED <<policies, nextId, queue, api, intent>>
  /\ UNCHANGED workerVars

IndexedRules == { <<RuleAlice>>, <<RuleBob>>, <<RuleAlice, RuleBob>> }

\* Policy 1 of t1 and policy 2 of t2, with a create event for each.
InitIndex ==
  /\ \E r1, r2 \in IndexedRules :
       /\ policies = [u \in Tenants |-> [id \in PolicyIds |->
                        IF u = "t1" /\ id = 1
                        THEN StoredItem("t1", 1, "a", "d", r1, "created")
                        ELSE IF u = "t2" /\ id = 2
                        THEN StoredItem("t2", 2, "b", "d", r2, "created")
                        ELSE None]]
       /\ intent = [id \in PolicyIds |->
                      IF id = 1 THEN [rules |-> r1, status |-> "draft"]
                      ELSE IF id = 2 THEN [rules |-> r2, status |-> "draft"]
                      ELSE [rules |-> <<>>, status |-> "none"]]
  /\ queue = <<[ev |-> Envelope(ApiContext("t1"), "create", 1), rc |-> 0, st |-> "visible"],
               [ev |-> Envelope(ApiContext("t2"), "create", 2), rc |-> 0, st |-> "visible"]>>
  /\ nextId = MaxPolicies + 1
  /\ api = [c \in Clients |-> Idle]
  /\ last = NoResponse
  /\ context = [tenantId |-> "none", username |-> "none", cidrBlackList |-> <<>>]
  /\ cache = [t \in Tenants |-> NotCached]
  /\ recs = <<>>
  /\ index = {}
  /\ faults = 0

\* The queue processor filling the index, and readers of the index.
NextIndex ==
  \/ NextValidate
  \/ \E t \in Tenants, userEmail \in UserParams, domain \in DomainParams :
       IndexRead(t, userEmail, domain)
  \/ ApiRespond

SpecIndex == InitIndex /\ [][NextIndex]_vars

\* ------------------------------------------------------ CRUD HTTP responses

\* What a CRUD request can throw before it reaches the store, as the class
\* of the thrown value and its message. NotAnError is a thrown value that is
\* not an instance of Error.
Thrown ==
  { [class |-> "UnauthorizedError", message |-> "Missing Authorization header"],
    [class |-> "ValidationError",   message |-> "Request body is required"],
    [class |-> "ValidationError",   message |-> "Invalid JSON in request body"],
    [class |-> "ConflictError",     message |-> "Policy already exists"],
    [class |-> "Error",             message |-> "Policy creation validation failed"],
    [class |-> "NotAnError",        message |-> ""] }

\* The thrown value behind a failed outcome of the model.
ThrownBy(r) ==
  [class |-> r.res,
   message |-> IF r.data = None THEN "Internal failure" ELSE r.data.message]

\* Variant: every error is answered with 500.
createErrorResponseAll500(error) ==
  [statusCode |-> 500, success |-> FALSE, error |-> "InternalError",
   message |-> "Internal server error"]

\* createErrorResponse: the instanceof chain, then the response.
createErrorResponse(error) ==
  LET known == {"UnauthorizedError", "ValidationError", "NotFoundError", "ConflictError"}
      statusCode == IF error.class = "UnauthorizedError" THEN 401
                    ELSE IF error.class = "ValidationError" THEN 400
                    ELSE IF error.class = "NotFoundError" THEN 404
                    ELSE IF error.class = "ConflictError" THEN 409
                    ELSE 500
      errorType == IF error.class \in known THEN error.class ELSE "InternalError"
      errorMessage == IF error.class = "NotAnError" THEN "Internal server error"
                      ELSE error.message
  IN [statusCode |-> statusCode, success |-> FALSE, error |-> errorType,
      message |-> errorMessage]

createSuccessResponse(data) ==
  [statusCode |-> 200, success |-> TRUE, data |-> data]

\* A request that throws before any store access: token validation, routing,
\* body parsing or schema validation.
ApiThrow(c, t, op, e) ==
  /\ api[c] = Idle /\ last = NoResponse
  /\ last' = Returned(op, t, 0, e.class, [message |-> e.message])
  /\ UNCHANGED <<policies, nextId, queue, api, intent>>
  /\ UNCHANGED workerVars

\* The handler's return: createSuccessResponse(result) or, from the catch
\* block, createErrorResponse(error).
ApiReply ==
  /\ last.op \notin {"none", "response"}
  /\ last' = Returned("response", last.t, last.id, last.op,
                      IF last.res = "ok" THEN createSuccessResponse(last.data)
                      ELSE createErrorResponse(ThrownBy(last)))
  /\ UNCHANGED <<policies, nextId, queue, api, intent>>
  /\ UNCHANGED workerVars

NextError ==
  \/ ApiNext({"c1"})
  \/ \E t \in Tenants, body \in CreateBodies : ApiCreateFailed("c1", t, body)
  \/ ApiSendFailed("c1")
  \/ \E t \in Tenants, op \in {"get", "create", "update", "delete"}, e \in Thrown :
       ApiThrow("c1", t, op, e)
  \/ ApiReply

SpecError == Init /\ [][NextError]_vars

\* ------------------------------------------------------- renaming a policy

\* Policy 1 of t1, named "a" and published, and a second policy named "b" of
\* either tenant, draft or published; both were processed, the queue is empty.
InitRename ==
  /\ \E t \in Tenants, status \in {"draft", "published"} :
       LET one == StoredItem("t1", 1, "a", "d", <<RuleAlice>>, "created")
           two == StoredItem(t, 2, "b", "d", <<RuleBob>>, "created")
       IN /\ policies = [u \in Tenants |-> [id \in PolicyIds |->
                           IF u = "t1" /\ id = 1
                           THEN [one EXCEPT !.content.status = "published"]
                           ELSE IF u = t /\ id = 2
                           THEN [two EXCEPT !.content.status = status]
                           ELSE None]]
          /\ intent = [id \in PolicyIds |->
                         IF id = 1 THEN [rules |-> <<RuleAlice>>, status |-> "published"]
                         ELSE IF id = 2 THEN [rules |-> <<RuleBob>>, status |-> status]
                         ELSE [rules |-> <<>>, status |-> "none"]]
          /\ index = LET first == savePolicyRules({}, one.content, "t1", UserOf("t1"))
                     IN IF status = "published"
                        THEN savePolicyRules(first, two.content, t, UserOf(t))
                        ELSE first
  /\ queue = <<>>
  /\ nextId = MaxPolicies + 1
  /\ api = [c \in Clients |-> Idle]
  /\ last = NoResponse
  /\ context = [tenantId |-> "none", username |-> "none", cidrBlackList |-> <<>>]
  /\ cache = [t \in Tenants |-> NotCached]
  /\ recs = <<>>
  /\ faults = 0

\* PUT requests that rename, one at a time, beside the queue processor.
NextRename ==
  \/ \E t \in Tenants, id \in PolicyIds, u \in { [name |-> "a"], [name |-> "A"], [name |-> "b"] } :
       ApiUpdateRead("c1", t, id, u)
  \/ ApiUpdateWrite("c1")
  \/ ApiSend("c1")
  \/ ApiRespond
  \/ NextValidate

SpecRename == InitRename /\ [][NextRename]_vars

\* ------------------------------------------- two policies with common rules

\* Policy 1 of t1 and policy 2 of either tenant, each with rules drawn from
\* IndexedRules (so both may hold the same rule), and a create event for each.
InitOverlap ==
  /\ \E t \in Tenants, r1, r2 \in IndexedRules :
       /\ policies = [u \in Tenants |-> [id \in PolicyIds |->
                        IF u = "t1" /\ id = 1
                        THEN StoredItem("t1", 1, "a", "d", r1, "created")
                        ELSE IF u = t /\ id = 2
                        THEN StoredItem(t, 2, "b", "d", r2, "created")
                        ELSE None]]
       /\ intent = [id \in PolicyIds |->
                      IF id = 1 THEN [rules |-> r1, status |-> "draft"]
                      ELSE IF id = 2 THEN [rules |-> r2, status |-> "draft"]
                      ELSE [rules |-> <<>>, status |-> "none"]]
       /\ queue = <<[ev |-> Envelope(ApiContext("t1"), "create", 1), rc |-> 0,
                     st |-> "visible"],
                    [ev |-> Envelope(ApiContext(t), "create", 2), rc |-> 0,
                     st |-> "visible"]>>
  /\ nextId = MaxPolicies + 1
  /\ api = [c \in Clients |-> Idle]
  /\ last = NoResponse
  /\ context = [tenantId |-> "none", username |-> "none", cidrBlackList |-> <<>>]
  /\ cache = [t \in Tenants |-> NotCached]
  /\ recs = <<>>
  /\ index = {}
  /\ faults = 0

SpecOverlap == InitOverlap /\ [][NextValidate]_vars

\* ------------------------------------------------ two handler invocations

\* The event source mapping sets no concurrency limit, so the queue's poller
\* may run the handler in two containers at once. Each container has its own
\* static context and blacklist cache. All requests of this specification are
\* tenant t1's, so both containers' contexts name the same tenant and user and
\* one copy of context and cache stands for both.
\* The records of invocation k.
RecsOf(k) == { i \in DOMAIN recs : recs[i].inv = k }

\* handler starts in container k, which is idle, with a batch of messages.
DeliverTo(k, batch) ==
  /\ batch \in AnyBatches
  /\ RecsOf(k) = {}
  /\ \A j \in DOMAIN batch : queue[batch[j]].ev.tenantId = "t1"
  /\ queue' = [i \in 1..Len(queue) |->
                 IF \E j \in DOMAIN batch : batch[j] = i
                 THEN [queue[i] EXCEPT !.st = "inflight", !.rc = @ + 1]
                 ELSE queue[i]]
  /\ context' = IF recs = <<>>
                THEN initializeFromEvent(queue[batch[Len(batch)]].ev)
                ELSE context
  /\ recs' = recs \o [j \in DOMAIN batch |-> [inv |-> k] @@ NewRec(batch[j])]
  /\ UNCHANGED <<policies, nextId, intent, cache, index, faults>>
  /\ UNCHANGED apiVars

\* Promise.all of invocation k settles: its handler returns or rethrows, and
\* the poller deletes its batch's messages only when it returned.
HandlerReturnOf(k) ==
  /\ RecsOf(k) # {}
  /\ \A i \in RecsOf(k) : Settled(recs[i])
  /\ LET threw == \E i \in RecsOf(k) : recs[i].pc = "failed" IN
     queue' = [m \in 1..Len(queue) |->
                 IF \E i \in RecsOf(k) : recs[i].m = m
                 THEN [queue[m] EXCEPT !.st = IF threw THEN "visible" ELSE "deleted"]
                 ELSE queue[m]]
  /\ recs' = SelectSeq(recs, LAMBDA r : r.inv # k)
  /\ UNCHANGED <<policies, nextId, intent, context, cache, index, faults>>
  /\ UNCHANGED apiVars

\* Tenant t1's CRUD requests beside the handler running in the containers
\* `ks`; no store call fails.
NextWorkers(ks) ==
  \/ \E body \in CreateBodies : ApiCreate("c1", "t1", body)
  \/ \E id \in PolicyIds,
        u \in { [rules |-> <<[RuleAlice EXCEPT !.action = "allow"]>>],
                [rules |-> <<RuleBob>>] } :
       ApiUpdateRead("c1", "t1", id, u)
  \/ ApiUpdateWrite("c1")
  \/ ApiSend("c1")
  \/ ApiRespond
  \/ \E k \in ks, b \in AnyBatches : DeliverTo(k, b)
  \/ \E i \in 1..BatchSize : RecCidr(i, FALSE)
  \/ \E i \in 1..BatchSize : RecGate(i)
  \/ \E i \in 1..BatchSize : RecValidate(i)
  \/ \E i \in 1..BatchSize : RecPubRead(i)
  \/ \E i \in 1..BatchSize : RecPubUpdRead(i)
  \/ \E i \in 1..BatchSize : RecPubUpdWrite(i, FALSE)
  \/ \E i \in 1..BatchSize : RecIdxRead(i)
  \/ \E i \in 1..BatchSize : RecIdxWrite(i, FALSE)
  \/ \E k \in ks : HandlerReturnOf(k)
  \/ \E i \in 1..MaxMsgs : Redrive(i)

NextConcurrent == NextWorkers({1, 2})

SpecConcurrent == Init /\ [][NextConcurrent]_vars

\* ------------------------------------------ the per-invocation context object

\* What the constructor of RequestContextManager can be handed: a decoded
\* token payload or a parsed queue envelope. A field the object does not have
\* is NoField (NoPolicyId for policyId); expType is `typeof obj.exp`.
TokenPayloads ==
  { [sub |-> sub, username |-> UserOf(t), tenant_id |-> t, groups |-> groups,
     expType |-> expType,
     eventType |-> NoField, policyId |-> NoPolicyId, tenantId |-> NoField,
     triggeredBy |-> NoField] :
      sub \in {"s1", "s2"}, t \in Tenants, groups \in {<<"Admin">>, <<"Admin", "Ops">>},
      expType \in {"number", "string"} }

EnvelopePayloads ==
  { [sub |-> NoField, username |-> NoField, tenant_id |-> NoField, groups |-> <<>>,
     expType |-> "undefined",
     eventType |-> e.eventType, policyId |-> e.policyId, tenantId |-> e.tenantId,
     triggeredBy |-> e.triggeredBy] : e \in Envelopes }

\* typeof obj.sub === "string" && typeof obj.exp === "string"
isCognitoTokenPayload(obj) == obj.sub # NoField /\ obj.expType = "string"

\* typeof obj.policyId === "string" && typeof obj.tenantId === "string"
isSQSEvent(obj) == obj.policyId # NoPolicyId /\ obj.tenantId # NoField

\* new RequestContextManager(payload, correlationId): the value of
\* this.context after the constructor; None is a field never assigned.
NewRequestContextManager(payload, correlationId) ==
  IF isCognitoTokenPayload(payload)
  THEN [tenantId |-> payload.tenant_id, userId |-> payload.sub,
        username |-> payload.username, groups |-> payload.groups,
        correlationId |-> correlationId]
  ELSE IF isSQSEvent(payload)
  THEN [eventType |-> payload.eventType, policyId |-> payload.policyId,
        tenantId |-> payload.tenantId, triggeredBy |-> payload.triggeredBy,
        correlationId |-> correlationId]
  ELSE None

\* The handler constructs the context of its invocation and uses it for the
\* first time (createLogEntry reads this.context.tenantId): a context that
\* was never assigned throws a TypeError there.
ApiConstruct(c) ==
  /\ api[c].pc = "construct" /\ last = NoResponse
  /\ LET ctx == NewRequestContextManager(api[c].payload, api[c].correlationId) IN
     last' = Returned("construct", "none", 0,
                      IF ctx = None THEN "TypeError" ELSE "ok", ctx)
  /\ api' = [api EXCEPT ![c] = Idle]
  /\ UNCHANGED <<policies, nextId, queue, intent>>
  /\ UNCHANGED workerVars

\* An invocation about to construct its context from one payload.
InitContext ==
  /\ \E payload \in TokenPayloads \cup EnvelopePayloads, cid \in {"corr-1", "corr-2"} :
       api = [c \in Clients |->
                IF c = "c1"
                THEN [pc |-> "construct", payload |-> payload, correlationId |-> cid]
                ELSE Idle]
  /\ policies = [t \in Tenants |-> [id \in PolicyIds |-> None]]
  /\ nextId = 1
  /\ queue = <<>>
  /\ last = NoResponse
  /\ intent = [id \in PolicyIds |-> [rules |-> <<>>, status |-> "none"]]
  /\ context = [tenantId |-> "none", username |-> "none", cidrBlackList |-> <<>>]
  /\ cache = [t \in Tenants |-> NotCached]
  /\ recs = <<>>
  /\ index = {}
  /\ faults = 0

NextContext ==
  \/ ApiConstruct("c1")
  \/ ApiRespond

SpecContext == InitContext /\ [][NextContext]_vars

\* ------------------------------------------------ what an update may carry

\* Policy 1 of t1 and policy 2 of either tenant are stored; nothing in flight.
InitMerge ==
  /\ \E t \in Tenants :
       policies = [u \in Tenants |-> [id \in PolicyIds |->
                     IF u = "t1" /\ id = 1
                     THEN StoredItem("t1", 1, "a", "d", <<RuleAlice>>, "created")
                     ELSE IF u = t /\ id = 2
                     THEN StoredItem(t, 2, "b", "d", <<RuleBob>>, "created")
                     ELSE None]]
  /\ intent = [id \in PolicyIds |->
                 IF id = 1 THEN [rules |-> <<RuleAlice>>, status |-> "draft"]
                 ELSE IF id = 2 THEN [rules |-> <<RuleBob>>, status |-> "draft"]
                 ELSE [rules |-> <<>>, status |-> "none"]]
  /\ queue = <<>>
  /\ nextId = MaxPolicies + 1
  /\ api = [c \in Clients |-> Idle]
  /\ last = NoResponse
  /\ context = [tenantId |-> "none", username |-> "none", cidrBlackList |-> <<>>]
  /\ cache = [t \in Tenants |-> NotCached]
  /\ recs = <<>>
  /\ index = {}
  /\ faults = 0

\* PUT requests of two API invocations at a time; the `updates` objects are
\* fields of the policy, and one that also carries the fields the merge sets
\* itself.
NextMerge ==
  \/ \E c \in Clients, t \in Tenants, id \in PolicyIds,
        u \in { [rules |-> <<RuleBob>>],
                [status |-> "published"],
                [name |-> "z", _id |-> 2, createdBy |-> "mallory",
                 updatedBy |-> "mallory"] } :
       ApiUpdateRead(c, t, id, u)
  \/ \E c \in Clients : ApiUpdateWrite(c)
  \/ \E c \in Clients : ApiSend(c)
  \/ ApiRespond

SpecMerge == InitMerge /\ [][NextMerge]_vars

\* ------------------------------------------- the membership test on its text

\* A JavaScript value handed to the test: a string, as its characters, or
\* undefined.
Str(chars) == [type |-> "string", chars |-> chars]
Undefined == [type |-> "undefined", chars |-> <<>>]

DigitChars == {"0", "1", "2", "3", "4", "5", "6", "7", "8", "9"}

\* String.prototype.split(sep) for a one-character separator.
RECURSIVE split(_, _)
split(chars, sep) ==
  IF \A i \in 1..Len(chars) : chars[i] # sep THEN <<chars>>
  ELSE LET i == CHOOSE k \in 1..Len(chars) :
                  chars[k] = sep /\ \A j \in 1..(k - 1) : chars[j] # sep
       IN <<SubSeq(chars, 1, i - 1)>> \o split(SubSeq(chars, i + 1, Len(chars)), sep)

\* The longest prefix of decimal digits.
RECURSIVE LeadingDigits(_)
LeadingDigits(chars) ==
  IF chars = <<>> \/ Head(chars) \notin DigitChars THEN <<>>
  ELSE <<Head(chars)>> \o LeadingDigits(Tail(chars))

RECURSIVE DecimalValue(_)
DecimalValue(digits) ==
  LET DigitVal(c) ==
        CASE c = "0" -> 0 [] c = "1" -> 1 [] c = "2" -> 2 [] c = "3" -> 3 [] c = "4" -> 4
          [] c = "5" -> 5 [] c = "6" -> 6 [] c = "7" -> 7 [] c = "8" -> 8 [] c = "9" -> 9
  IN IF digits = <<>> THEN 0
     ELSE DecimalValue(SubSeq(digits, 1, Len(digits) - 1)) * 10
            + DigitVal(digits[Len(digits)])

NaN == [nan |-> TRUE, val |-> 0]

\* parseInt(value, 10): leading white space is skipped, a sign is read, then
\* the longest run of digits; what follows is ignored; no digit gives NaN.
\* parseInt(undefined) is NaN.
parseInt(value) ==
  IF value.type # "string" THEN NaN
  ELSE LET RECURSIVE TrimStart(_)
           TrimStart(chars) ==
             IF chars # <<>> /\ Head(chars) = " " THEN TrimStart(Tail(chars)) ELSE chars
           s == TrimStart(value.chars)
           signed == s # <<>> /\ Head(s) \in {"-", "+"}
           digits == LeadingDigits(IF signed THEN Tail(s) ELSE s)
       IN IF digits = <<>> THEN NaN
          ELSE [nan |-> FALSE,
                val |-> IF signed /\ Head(s) = "-" THEN 0 - DecimalValue(digits)
                        ELSE DecimalValue(digits)]

\* ipToNumber on the text: throws unless split('.') gives four parts that
\* parseInt reads as 0..255; ip.split of a value that is no string throws.
ipToNumberOfText(ip) ==
  IF ip.type # "string" THEN [thrown |-> TRUE, hi |-> 0, lo |-> 0]
  ELSE LET parts == split(ip.chars, ".")
           num(i) == parseInt(Str(parts[i]))
       IN IF Len(parts) # 4 THEN [thrown |-> TRUE, hi |-> 0, lo |-> 0]
          ELSE IF \E i \in 1..4 : num(i).nan \/ num(i).val < 0 \/ num(i).val > 255
          THEN [thrown |-> TRUE, hi |-> 0, lo |-> 0]
          ELSE [thrown |-> FALSE,
                hi |-> (num(1).val * 256 + num(2).val) % Half,
                lo |-> (num(3).val * 256 + num(4).val) % Half]

\* The body of the try block of isIpInCidrBlock and of isIpInCidr (the two
\* are the same text): "true", "false", or "throws".
CidrTestBody(ip, cidr) ==
  IF cidr.type # "string" THEN "throws"
  ELSE LET parts == split(cidr.chars, "/")
           network == Str(parts[1])
           prefixLength == IF Len(parts) >= 2 THEN Str(parts[2]) ELSE Undefined
           prefix == parseInt(prefixLength)
       IN IF prefix.nan \/ prefix.val < 0 \/ prefix.val > 32 THEN "false"
          ELSE IF ipToNumberOfText(ip).thrown \/ ipToNumberOfText(network).thrown
          THEN "throws"
          ELSE LET ipNum == ipToNumberOfText(ip)
                   networkNum == ipToNumberOfText(network)
                   mask == CidrMask(prefix.val)
               IN IF AndMask([hi |-> ipNum.hi, lo |-> ipNum.lo], mask)
                       = AndMask([hi |-> networkNum.hi, lo |-> networkNum.lo], mask)
                  THEN "true" ELSE "false"

\* CidrUtils.isIpInCidrBlock(ip, cidr) on the text: try { ... } catch { return false }
isIpInCidrBlockOfText(ip, cidr) ==
  IF CidrTestBody(ip, cidr) = "throws" THEN "false" ELSE CidrTestBody(ip, cidr)

\* RequestContextManager.isIpInCidr(ip, cidr) on the text.
isIpInCidrOfText(ip, cidr) ==
  IF CidrTestBody(ip, cidr) = "throws" THEN "false" ELSE CidrTestBody(ip, cidr)

\* One call of the membership test: its result is what the caller gets.
ApiCidrTest(c) ==
  /\ api[c].pc = "cidr" /\ last = NoResponse
  /\ LET a == api[c]
         res == IF a.fn = "isIpInCidrBlock" THEN isIpInCidrBlockOfText(a.ip, a.cidr)
                ELSE isIpInCidrOfText(a.ip, a.cidr)
     IN last' = Returned(a.fn, "none", 0, res, [ip |-> a.ip, cidr |-> a.cidr])
  /\ api' = [api EXCEPT ![c] = Idle]
  /\ UNCHANGED <<policies, nextId, queue, intent>>
  /\ UNCHANGED workerVars

\* A call of one of the two tests with one ip and one cidr is about to run.
InitCidrText ==
  /\ \E ip \in { Str(<<"1", "0", ".", "1", ".", "2", ".", "3">>),
                 Str(<<"1", "9", "2", ".", "1", "6", "8", ".", "1", ".", "5">>),
                 Str(<<"1", "0", ".", "1", ".", "2">>),
                 Str(<<"1", "0", ".", "1", ".", "2", ".", "2", "5", "6">>),
                 Str(<<"1", "0", ".", "1", ".", "2", ".", "x">>),
                 Str(<<"1", "0", ".", "1", ".", ".", "3">>),
                 Str(<<"1", "0", ".", "1", ".", "2", ".", "3", "a", "b", "c">>),
                 Undefined },
        cidr \in { Str(<<"1", "0", ".", "0", ".", "0", ".", "0", "/", "8">>),
                   Str(<<"1", "0", ".", "0", ".", "0", ".", "0", "/", "3", "2">>),
                   Str(<<"1", "0", ".", "1", ".", "2", ".", "3", "/", "3", "2">>),
                   Str(<<"1", "0", ".", "0", ".", "0", ".", "0">>),
                   Str(<<"1", "0", ".", "0", ".", "0", ".", "0", "/">>),
                   Str(<<"1", "0", ".", "0", ".", "0", ".", "0", "/", "a", "b", "c">>),
                   Str(<<"1", "0", ".", "0", ".", "0", ".", "0", "/", "3", "3">>),
                   Str(<<"1", "0", ".", "0", ".", "0", ".", "0", "/", "-", "1">>),
                   Str(<<"1", "0", ".", "0", ".", "0", ".", "0", "/", "8", "a", "b", "c">>),
                   Str(<<"1", "0", ".", "0", ".", "0", ".", "0", "/", " ", "8">>),
                   Str(<<"1", "0", ".", "0", ".", "0", "/", "8">>),
                   Str(<<"1", "0", ".", "0", ".", "0", ".", "9", "9", "9", "/", "8">>),
                   Str(<<"1", "0", ".", "0", ".", "0", ".", "0", "x", "/", "8">>),
                   Undefined },
        fn \in {"isIpInCidrBlock", "isIpInCidr"} :
       api = [c \in Clients |->
                IF c = "c1" THEN [pc |-> "cidr", fn |-> fn, ip |-> ip, cidr |-> cidr]
                ELSE Idle]
  /\ policies = [t \in Tenants |-> [id \in PolicyIds |-> None]]
  /\ nextId = 1
  /\ queue = <<>>
  /\ last = NoResponse
  /\ intent = [id \in PolicyIds |-> [rules |-> <<>>, status |-> "none"]]
  /\ context = [tenantId |-> "none", username |-> "none", cidrBlackList |-> <<>>]
  /\ cache = [t \in Tenants |-> NotCached]
  /\ recs = <<>>
  /\ index = {}
  /\ faults = 0

NextCidrText ==
  \/ ApiCidrTest("c1")
  \/ ApiRespond

SpecCidrText == InitCidrText /\ [][NextCidrText]_vars

\* ------------------------------------------------------------ properties

\* The issues list holds the message `text` for rule `rule` (0: the policy).
HasIssue(issues, rule, text) ==
  \E k \in 1..Len(issues) : issues[k] = [rule |-> rule, text |-> text]

\* The policy `id` is stored under a tenant other than `t`.
Foreign(t, id) == \E o \in Tenants \ {t} : policies[o][id] # None

\* A step in which a CRUD request decides its response from the store as it is now
\* (the response of ApiSend reports a write made in an earlier step).
Responds == last' # last /\ last' # NoResponse /\ queue' = queue

\* The tenant on whose behalf this step writes the Policies table, if it writes.
Writers ==
  { api[c].t : c \in { d \in Clients : api[d].pc = "write" /\ api'[d] # api[d] } }
  \cup (IF recs' # recs /\ recs # <<>> THEN {context.tenantId} ELSE {})

\* C1: a get, update or delete issued under tenant T2 for a policy stored under
\* tenant T1 # T2 answers NotFoundError, returns no policy data and leaves the
\* T1 record as it was; a stored record changes only in a write made under
\* its own tenant.
C1_CrossTenantNotFound ==
  [][ /\ (Responds /\ Foreign(last'.t, last'.id))
         => /\ last'.res = "NotFoundError"
            /\ last'.data = None
            /\ policies' = policies
      /\ \A t \in Tenants, id \in PolicyIds :
           (policies[t][id] # None /\ policies'[t][id] # policies[t][id])
             => Writers = {t} ]_vars

C1_Witness ==
  /\ last.op = "update" /\ last.res = "NotFoundError"
  /\ Foreign(last.t, last.id)

\* The status a caller sees: a soft-deleted record counts as deleted.
StatusOf(item) == IF item.State = "deleted" THEN "deleted" ELSE item.content.status

\* C2: a stored policy's status changes only draft->published, draft->draft
\* or anything->deleted; a published policy never becomes draft again.
C2_StatusTransitions ==
  [][ \A t \in Tenants, id \in PolicyIds :
        policies[t][id] # None =>
          LET a == StatusOf(policies[t][id])
              b == StatusOf(policies'[t][id])
          IN \/ a = b
             \/ a = "draft" /\ b = "published"
             \/ b = "deleted" ]_vars

\* C3: once a record is soft-deleted, a get, update or delete of it by its own
\* tenant answers NotFoundError without data, and the record never changes again.
C3_DeletedTerminal ==
  [][ /\ \A t \in Tenants, id \in PolicyIds :
           (policies[t][id] # None /\ policies[t][id].State = "deleted")
             => policies'[t][id] = policies[t][id]
      /\ (/\ Responds
          /\ policies[last'.t][last'.id] # None
          /\ policies[last'.t][last'.id].State = "deleted")
         => last'.res = "NotFoundError" /\ last'.data = None ]_vars

C3_Witness ==
  /\ last.op \in {"update", "delete"} /\ last.res = "NotFoundError"
  /\ policies[last.t][last.id] # None
  /\ policies[last.t][last.id].State = "deleted"

StepOrder == <<"gate", "validate", "publish", "index">>

IsPrefix(s, t) == Len(s) <= Len(t) /\ \A k \in 1..Len(s) : s[k] = t[k]

Did(rec, name) == \E k \in 1..Len(rec.steps) : rec.steps[k] = name

\* C5: the steps of one attempt are a prefix of gate, validate, publish, index,
\* and the rule index is written only by an attempt whose validation found no
\* issue and whose publish wrote the status.
C5_StepOrder ==
  [][ /\ \A i \in DOMAIN recs' :
           /\ IsPrefix(recs'[i].steps, StepOrder)
           /\ Did(recs'[i], "index") => recs'[i].issues = <<>> /\ recs'[i].wrote # "none"
      /\ index' # index =>
           \E i \in DOMAIN recs :
             /\ recs[i].pc = "idxWrite" /\ recs'[i].steps = StepOrder
             /\ recs[i].issues = <<>> /\ recs[i].wrote # "none" ]_vars

C5_Witness ==
  \E i \in DOMAIN recs :
    recs[i].steps = StepOrder /\ recs[i].pc = "done" /\ index # {}

\* C6: a publish that succeeds writes published for a create event; for an
\* update event published when the status it read was draft, else the status
\* it read; deleted for a delete event.
C6_PublishedStatus ==
  [][ /\ \A i \in DOMAIN recs :
           (i \in DOMAIN recs' /\ recs[i].pc = "pubUpdWrite" /\ recs'[i].pc = "idxRead")
             => LET ty == recs[i].ev.eventType
                    expected == IF ty = "create" THEN "published"
                                ELSE IF ty = "delete" THEN "deleted"
                                ELSE IF recs[i].read = "draft" THEN "published"
                                ELSE recs[i].read
                IN /\ recs'[i].wrote = expected
                   /\ policies'[context.tenantId][recs[i].ev.policyId].content.status
                        = expected
      /\ \A st \in {"draft", "published", "deleted"} : NewStatus("delete", st) = "deleted"
    ]_vars

C6_Witness ==
  \E i \in DOMAIN recs :
    /\ recs[i].ev.eventType = "update"
    /\ recs[i].read = "draft" /\ recs[i].wrote = "published"

\* C7 as stated: every attempt that ends publish-failed has written draft back
\* if its event is a create, and has written nothing otherwise; no index step.
C7_PublishFailureReverts ==
  \A i \in DOMAIN recs :
    recs[i].outcome = "publish-failed"
      => /\ recs[i].pc = "failed"
         /\ ~Did(recs[i], "index")
         /\ recs[i].reverted <=> recs[i].ev.eventType = "create"

\* C7, amended: when the publish step fails it writes nothing itself; for a
\* create event the engine then attempts to write draft back, and that write
\* happens exactly when the policy can still be read and the conditional update
\* is accepted (a failure of the attempt is swallowed); for update and delete
\* nothing is written. In every case the attempt ends publish-failed without an
\* index step.
C7_PublishFailureAttemptsRevert ==
  [][ \A i \in DOMAIN recs :
        (i \in DOMAIN recs' /\ recs'[i] # recs[i]) =>
          LET old == recs[i]
              new == recs'[i]
              id == old.ev.policyId
              ended == /\ new.pc = "failed" /\ new.outcome = "publish-failed"
                       /\ ~Did(new, "index") /\ index' = index
          IN /\ (/\ old.pc \in {"pubRead", "pubUpdRead", "pubUpdWrite"}
                 /\ new.pc \notin {"pubUpdRead", "pubUpdWrite", "idxRead"})
                => /\ policies' = policies
                   /\ IF old.ev.eventType = "create"
                      THEN new.pc = "revRead" /\ new.outcome = "running"
                      ELSE ended /\ ~new.reverted
             /\ old.pc = "revRead"
                => /\ policies' = policies
                   /\ old.ev.eventType = "create"
                   /\ \/ new.pc = "revWrite" /\ getPolicyById(context, id).err = "ok"
                      \/ ended /\ ~new.reverted /\ getPolicyById(context, id).err # "ok"
             /\ old.pc = "revWrite"
                => /\ ended
                   /\ new.reverted <=> (WriteCondition(context, id) /\ faults' = faults)
                   /\ new.reverted =>
                        policies'[context.tenantId][id].content.status = "draft"
                   /\ ~new.reverted => policies' = policies ]_vars

C7_Witness ==
  \E i \in DOMAIN recs :
    /\ recs[i].ev.eventType = "create" /\ recs[i].outcome = "publish-failed"
    /\ recs[i].reverted
    /\ policies[context.tenantId][recs[i].ev.policyId].content.status = "draft"

\* C8: an attempt whose validation collects an issue throws right there: it
\* ends validation-failed after the gate and validate steps only, the Policies
\* table and the rule index are as before, and when the handler ends the
\* message is visible on the queue again. A missing description is such an
\* issue, and so is an empty name.
C8_ValidationFailureStops ==
  [][ /\ \A i \in DOMAIN recs :
           (i \in DOMAIN recs' /\ recs[i].pc = "validate" /\ recs'[i] # recs[i]) =>
             LET r == getPolicyById(context, recs[i].ev.policyId) IN
             /\ (/\ recs[i].ev.eventType \in {"create", "update"}
                 /\ r.err = "ok" /\ r.policy.description = "")
                => HasIssue(recs'[i].issues, 0, "Policy description is required")
             /\ recs'[i].issues # <<>>
                => /\ recs'[i].pc = "failed"
                   /\ recs'[i].outcome = "validation-failed"
                   /\ recs'[i].steps = <<"gate", "validate">>
                   /\ policies' = policies /\ index' = index
      /\ \A i \in DOMAIN recs' :
           recs'[i].outcome = "validation-failed"
             => recs'[i].steps = <<"gate", "validate">> /\ recs'[i].pc = "failed"
      /\ (recs # <<>> /\ recs' = <<>>) =>
           \A i \in DOMAIN recs :
             recs[i].outcome = "validation-failed"
               => /\ queue'[recs[i].m].st = "visible"
                  /\ queue'[recs[i].m].ev = recs[i].ev
      /\ HasIssue(PolicyIssues([_id |-> 1, name |-> "", description |-> "d",
                                 status |-> "draft", rules |-> <<RuleAlice>>,
                                 createdBy |-> "u1", updatedBy |-> "u1"], "create", {}),
                   0, "Policy name is required")
    ]_vars

C8_Witness ==
  \E i \in DOMAIN recs :
    /\ recs[i].ev.eventType = "create"
    /\ recs[i].outcome = "validation-failed"
    /\ HasIssue(recs[i].issues, 0, "Policy description is required")
    /\ policies[recs[i].ev.tenantId][recs[i].ev.policyId].content.status = "draft"

\* C9: no committed change is lost: every field of a stored policy holds the
\* value of the last committed write that set that field.
C9_NoLostUpdate ==
  \A t \in Tenants, id \in PolicyIds :
    policies[t][id] # None
      => /\ policies[t][id].content.rules = intent[id].rules
         /\ policies[t][id].content.status = intent[id].status

\* C10: every store access made for a record of a batch runs under that
\* record's own tenantId and triggeredBy.
C10_OwnContext ==
  \A i \in DOMAIN recs : ~recs[i].wrongCtx

\* The index entries savePolicyRules writes for the rules of `content`.
RuleEntries(content, ev) ==
  { UserPolicyRecord(content, content.rules[k], ev.tenantId, ev.triggeredBy) :
      k \in 1..Len(content.rules) }

\* The policy of `ev` is as a completed run of the workflow leaves it:
\* published, with the entries of its rules in the index.
Processed(ev) ==
  LET item == policies[ev.tenantId][ev.policyId] IN
  /\ item # None /\ item.State # "deleted"
  /\ item.content.status = "published"
  /\ RuleEntries(item.content, ev) \subseteq index

\* C11: a create or update event delivered again while its policy is as a
\* completed run left it changes neither the policy's status nor the rule
\* index: no step of the repeated attempt alters them.
C11_RedeliveryIdempotent ==
  [][ \A i \in DOMAIN recs :
        (/\ i \in DOMAIN recs' /\ recs'[i] # recs[i]
         /\ recs[i].ev.eventType \in {"create", "update"}
         /\ queue[recs[i].m].rc >= 2
         /\ Processed(recs[i].ev))
        => /\ policies'[recs[i].ev.tenantId][recs[i].ev.policyId].content.status
                = "published"
           /\ index' = index ]_vars

\* The policy of a create event passes validation under its own tenant and has
\* no source IP in the tenant's blacklist.
Publishable(ev) ==
  LET ctx == [tenantId |-> ev.tenantId, username |-> ev.triggeredBy] IN
  /\ validatePolicy(ctx, ev.policyId, "create") = <<>>
  /\ \A ip \in extractSourceIps(getPolicyById(ctx, ev.policyId)) :
       ~isIpBlacklisted(BlacklistStore(ev.tenantId), ip)

\* C12: with every enabled step eventually taken and no store failure, from
\* some point on every create event whose policy passes validation and has no
\* blacklisted source IP has its policy published with one index entry per rule.
C12_CreateEventuallyPublished ==
  \A m \in 1..MaxMsgs :
    <>[]( IF Len(queue) >= m
          THEN (queue[m].ev.eventType = "create" /\ Publishable(queue[m].ev))
                 => Processed(queue[m].ev)
          ELSE TRUE )

\* C13: a failure in the validate, publish or index step ends the attempt
\* failed, never done; a failed attempt takes no further step and no step is
\* taken twice; and when the handler ends with a failed record, none of the
\* batch's messages is deleted: each is visible on the queue again.
C13_ExceptionsPropagate ==
  [][ /\ \A i \in DOMAIN recs :
           (i \in DOMAIN recs' /\ recs'[i] # recs[i]) =>
             LET old == recs[i]
                 new == recs'[i]
                 unreadable == getPolicyById(context, old.ev.policyId).err # "ok"
             IN /\ old.pc # "failed"
                /\ \A j, k \in 1..Len(new.steps) : j # k => new.steps[j] # new.steps[k]
                /\ (old.pc = "validate" /\ unreadable)
                     => new.pc = "failed" /\ new.outcome = "validation-failed"
                /\ (/\ old.pc \in {"pubRead", "pubUpdRead", "pubUpdWrite"}
                    /\ unreadable \/ faults' # faults)
                     => new.pc \in {"revRead", "failed"}
                /\ old.pc \in {"revRead", "revWrite"}
                     => new.pc \in {"revWrite", "failed"}
                /\ (old.pc = "idxRead" /\ unreadable)
                     => new.pc = "failed" /\ new.outcome = "error"
                /\ (old.pc = "idxWrite" /\ faults' # faults)
                     => new.pc = "failed" /\ new.outcome = "error" /\ index' = index
      /\ (recs # <<>> /\ recs' = <<>> /\ \E i \in DOMAIN recs : recs[i].pc = "failed")
           => \A i \in DOMAIN recs :
                /\ queue'[recs[i].m].st = "visible"
                /\ queue'[recs[i].m].ev = recs[i].ev ]_vars

C13_Witness ==
  \E i \in DOMAIN recs :
    /\ recs[i].pc = "failed" /\ recs[i].outcome = "error"
    /\ recs[i].steps = StepOrder
    /\ queue[recs[i].m].st = "inflight"

\* C14: a message is received at most 3 times; it is moved to the dead-letter
\* queue only when it is back on the queue after its third delivery, and then it
\* eventually is; no message disappears from the queue or changes, and a
\* message in the dead-letter queue stays there.
C14_DeadLetterAfterThree ==
  /\ [][ \A m \in 1..Len(queue) :
           /\ m <= Len(queue') /\ queue'[m].ev = queue[m].ev
           /\ queue'[m].rc <= 3
           /\ (queue'[m].st = "dlq" /\ queue[m].st # "dlq")
                => queue[m].rc = 3 /\ queue[m].st = "visible"
           /\ queue[m].st = "dlq" => queue'[m] = queue[m] ]_vars
  /\ \A m \in 1..MaxMsgs :
       (IF Len(queue) >= m THEN queue[m].rc = 3 /\ queue[m].st = "visible" ELSE FALSE)
         ~> (IF Len(queue) >= m THEN queue[m].st = "dlq" ELSE FALSE)

C14_Witness ==
  \E m \in 1..Len(queue) : queue[m].st = "dlq" /\ queue[m].rc = 3

EntryOf(e, rule, policy) ==
  /\ e.Source = sourceIdentifier(rule) /\ e.Destination = rule.domains
  /\ e.Action = rule.action
  /\ e.TimeRestrictions = rule.time /\ e.TrackingConfig = rule.track
  /\ e.PolicyID = policy._id /\ e.PolicyName = policy.name

\* C16: when a create event has been processed successfully, a query of the
\* rule index by a rule's user, and one by its domain, succeeds and returns an
\* entry with that rule's source, destination, action, time and track and a
\* back-reference to the policy, for every rule of the policy.
C16_IndexQueriesFindRules ==
  [][ \A i \in DOMAIN recs :
        (/\ i \in DOMAIN recs' /\ recs[i].pc = "idxWrite" /\ recs'[i].pc = "done"
         /\ recs[i].ev.eventType = "create")
        => \A k \in 1..Len(recs[i].existing.rules) :
             LET policy == recs[i].existing
                 rule == policy.rules[k]
                 byUser == getUserPolicies(index', rule.user, recs[i].ev.tenantId)
                 byDomain == getUserPoliciesByDomain(index', rule.domains,
                                                     recs[i].ev.tenantId)
             IN /\ rule.user # "" =>
                     /\ byUser.err = "ok"
                     /\ \E e \in byUser.items : EntryOf(e, rule, policy)
                /\ byDomain.err = "ok"
                /\ \E e \in byDomain.items : EntryOf(e, rule, policy) ]_vars

\* The keys (PK, SK) of the rule index.
IndexKeys(table) == { <<e.PK, e.SK>> : e \in table }

\* An entry of the index whose policy no longer has a rule with the entry's
\* (source, destination) key.
StaleEntry(e) ==
  LET p == policies[e.TenantID][e.PolicyID].content
  IN ~\E k \in 1..Len(p.rules) :
        <<e.TenantID, sourceIdentifier(p.rules[k]), p.rules[k].domains>> = e.PK

Violations(policy, others) ==
  { c \in {<<0, "name">>, <<0, "description">>, <<0, "rules">>, <<0, "duplicate">>} :
      \/ c[2] = "name" /\ policy.name = ""
      \/ c[2] = "description" /\ policy.description = ""
      \/ c[2] = "rules" /\ policy.rules = <<>>
      \/ c[2] = "duplicate" /\ \E p \in others :
                                 p._id # policy._id
                                 /\ toLowerCase(p.name) = toLowerCase(policy.name) }
  \cup { c \in (1..Len(policy.rules)) \X {"id", "name", "action", "source", "destination"} :
           LET rule == policy.rules[c[1]] IN
           \/ c[2] = "id" /\ rule.id = ""
           \/ c[2] = "name" /\ rule.name = ""
           \/ c[2] = "action" /\ rule.action \notin {"allow", "block"}
           \/ c[2] = "source" /\ rule.user = "" /\ rule.ip = ""
           \/ c[2] = "destination" /\ rule.domains = "" }

\* A record takes its validation step.
Validates(i) ==
  /\ i \in DOMAIN recs /\ i \in DOMAIN recs'
  /\ recs[i].pc = "validate" /\ recs'[i] # recs[i]
  /\ recs[i].ev.eventType \in {"create", "update"}

DuplicateIssues(issues) ==
  { k \in 1..Len(issues) : issues[k] = [rule |-> 0, text |-> "Policy name already exists"] }

\* Another live policy of tenant `t` has the name of policy `id`, up to case.
NameTaken(t, id) ==
  \E o \in PolicyIds \ {id} :
    /\ policies[t][o] # None /\ policies[t][o].State # "deleted"
    /\ LET mine == policies[t][id].content.name
           theirs == policies[t][o].content.name
       IN \/ mine = theirs
          \/ {mine, theirs} = {"a", "A"}

BadSource(rule) == (rule.user = "") = (rule.ip = "")

Malformed(ev) ==
  \/ ev.eventType \notin {"create", "update", "delete"}
  \/ ev.policyId = 0 \/ ev.tenantId = "" \/ ev.triggeredBy = ""

\* C21: a malformed envelope is rejected with a thrown error: its record is
\* failed from the start and takes no step, so nothing is read or written for
\* it -- a batch of malformed records alone leaves store, index, cache and
\* context as they were -- and the batch's messages stay on the queue.
C21_MalformedRejected ==
  [][ /\ \A i \in DOMAIN recs' :
           Malformed(recs'[i].ev)
           => /\ recs'[i].pc = "failed" /\ recs'[i].outcome = "error"
              /\ recs'[i].steps = <<>> /\ recs'[i].read = "none"
              /\ recs'[i].wrote = "none" /\ recs'[i].existing = None
      /\ (\A i \in DOMAIN recs : Malformed(recs[i].ev))
         /\ (\A i \in DOMAIN recs' : Malformed(recs'[i].ev))
         /\ (recs # <<>> \/ recs' # <<>>)
         => /\ policies' = policies /\ index' = index
            /\ cache' = cache /\ context' = context
      /\ (recs # <<>> /\ recs' = <<>> /\ \E i \in DOMAIN recs : Malformed(recs[i].ev))
         => \A i \in DOMAIN recs :
              queue'[recs[i].m].st = "visible" /\ queue'[recs[i].m].ev = recs[i].ev ]_vars

\* A message with an unknown eventType has been delivered, has failed without
\* a step, and is back on the queue.
C21_Witness ==
  /\ recs = <<>>
  /\ \E m \in 1..Len(queue) :
       /\ queue[m].ev.eventType = "invalid" /\ queue[m].ev.policyId = 1
       /\ queue[m].rc >= 1 /\ queue[m].st = "visible"

\* Record i resumes loadCidrBlacklist in this step.
LoadsList(i) ==
  /\ i \in DOMAIN recs /\ i \in DOMAIN recs'
  /\ recs[i].pc = "cidr" /\ recs'[i].pc = "gate"

C23_CacheTtl ==
  [][ \A i \in DOMAIN recs :
        LET t == recs[i].ev.tenantId IN
        LoadsList(i) =>
          IF cache[t].loaded /\ cache[t].age < CACHE_TTL
          THEN /\ cache' = cache /\ faults' = faults
               /\ context'.cidrBlackList = cache[t].list
          ELSE /\ cache'[t].loaded /\ cache'[t].age = 0
               /\ context'.cidrBlackList = cache'[t].list
               /\ faults' = faults => cache'[t].list = BlacklistStore(t) ]_vars

\* The only load that failed was this tenant's; the empty list it cached has
\* expired and the next call has loaded the store's list.
C23_Witness ==
  \E i \in DOMAIN recs :
    LET t == recs[i].ev.tenantId IN
    /\ recs[i].pc = "gate" /\ faults = 1
    /\ \A u \in Tenants \ {t} : cache[u] = NotCached
    /\ BlacklistStore(t) # <<>>
    /\ cache[t] = [loaded |-> TRUE, list |-> BlacklistStore(t), age |-> 0]
    /\ context.cidrBlackList = BlacklistStore(t)

\* The address as an unsigned 32-bit value, in two 16-bit halves.
Unsigned32(ip) ==
  LET o == Octets(ip) IN [hi |-> o[1] * 256 + o[2], lo |-> o[3] * 256 + o[4]]

\* The leading p bits of the addresses a and b are equal.
LeadingBitsEqual(a, b, p) ==
  IF p <= 16
  THEN Unsigned32(a).hi \div (2 ^ (16 - p)) = Unsigned32(b).hi \div (2 ^ (16 - p))
  ELSE /\ Unsigned32(a).hi = Unsigned32(b).hi
       /\ Unsigned32(a).lo \div (2 ^ (32 - p)) = Unsigned32(b).lo \div (2 ^ (32 - p))

\* The address lies in the CIDR block.
Contains(cidr, ip) == LeadingBitsEqual(ip, cidr.network, cidr.prefix)

\* A call of isIpBlacklisted returns in this step.
Answers == last = NoResponse /\ last'.op = "isIpBlacklisted"

\* C24: isIpBlacklisted(tenant, ip) answers true exactly when ip lies in a
\* CIDR block of the list cached for that tenant, whatever is cached for other
\* tenants; and a call or a clearing for one tenant leaves the other tenants'
\* cached lists as they were.
C24_OwnTenantsList ==
  [][ /\ Answers =>
           /\ (last'.res = "true")
                <=> \E k \in 1..Len(cache'[last'.t].list) :
                       Contains(cache'[last'.t].list[k], last'.data.ip)
           /\ \A u \in Tenants \ {last'.t} : cache'[u] = cache[u]
      /\ Cardinality({ u \in Tenants : cache'[u].list # cache[u].list
                                       \/ cache'[u].loaded # cache[u].loaded }) <= 1 ]_vars

\* C25: for the valid addresses and the blocks n/p, 0 <= p <= 32, that a
\* cached list holds, both membership tests are true exactly when the leading
\* p bits of the address and of n are equal.
C25_CidrMembership ==
  \A t \in Tenants : \A k \in 1..Len(cache[t].list) : \A ip \in IpInputs :
    /\ isIpInCidrBlock(ip, cache[t].list[k]) <=> Contains(cache[t].list[k], ip)
    /\ isIpInCidr(ip, cache[t].list[k]) <=> Contains(cache[t].list[k], ip)

\* C26: updatePolicyState succeeds exactly when the record exists under the
\* caller's tenant and is not deleted; on an already-deleted policy it fails
\* with NotFoundError and the record stays deleted.
C26_StateWriteGuarded ==
  [][ (last = NoResponse /\ last'.op = "updatePolicyState") =>
        LET item == policies[last'.t][last'.id] IN
        /\ (last'.res = "ok")
             <=> (item # None /\ item.TenantID = last'.t /\ item.State # "deleted")
        /\ (item # None /\ item.State = "deleted")
             => /\ last'.res = "NotFoundError"
                /\ policies'[last'.t][last'.id].State = "deleted" ]_vars

\* The live policies of tenant t.
Live(t) == { i \in PolicyIds : policies[t][i] # None /\ policies[t][i].State # "deleted" }

Mutating == {"create", "update", "delete"}

Committed(c) ==
  LET a == api[c]
      item == policies[a.t][a.id] IN
  /\ item # None
  /\ item.TenantID = a.t
  /\ IF a.op = "delete" THEN item.State = "deleted"
     ELSE item.State # "deleted" /\ item.content = a.data

C28_WriteThenOneEnvelope ==
  [][ /\ \A c \in Clients :
           (api[c].pc # "send" /\ api'[c].pc = "send") => Committed(c)'
      /\ (last = NoResponse /\ last'.op \in Mutating /\ last'.res = "ok") =>
           /\ \E c \in Clients :
                /\ api[c].pc = "send" /\ api'[c] = Idle
                /\ api[c].op = last'.op /\ api[c].t = last'.t /\ api[c].id = last'.id
           /\ Len(queue') = Len(queue) + 1
           /\ SubSeq(queue', 1, Len(queue)) = queue
           /\ LET ev == queue'[Len(queue')].ev IN
              /\ ev.eventType = last'.op
              /\ ev.policyId = last'.id
              /\ ev.tenantId = last'.t
      /\ (queue' # queue) =>
           last = NoResponse /\ last'.op \in Mutating /\ last'.res = "ok"
      /\ (last = NoResponse /\ last'.op \in Mutating /\ last'.res # "ok") =>
           /\ queue' = queue
           /\ \A c \in Clients : api'[c] # api[c] => api'[c] = Idle
    ]_vars

\* A delete answered with success whose envelope is the second on the queue,
\* after the create's, with the record marked deleted.
C28_Witness ==
  /\ last.op = "delete" /\ last.res = "ok"
  /\ Len(queue) = 2
  /\ queue[1].ev.eventType = "create"
  /\ queue[2].ev = [eventType |-> "delete", policyId |-> last.id,
                    tenantId |-> last.t, triggeredBy |-> UserOf(last.t)]
  /\ policies[last.t][last.id] # None
  /\ policies[last.t][last.id].State = "deleted"


\* The entries of tenant t in the index that match the given parameters.
Matching(t, userEmail, domain) ==
  { e \in index : /\ e.TenantID = t
                  /\ userEmail # "" => e.Source = userEmail
                  /\ domain # "" => e.Destination = domain }

C29_ReadAllOwnTenant ==
  [][ \A t \in Tenants :
        IndexRead(t, "", "") =>
          /\ last'.res = "ok"
          /\ last'.data.userPolicies = Matching(t, "", "")
          /\ last'.data.count = Cardinality(Matching(t, "", "")) ]_vars


\* C30: the response built for a failed CRUD request has status 400 for a
\* ValidationError, 401 for an UnauthorizedError, 404 for a NotFoundError, 409
\* for a ConflictError and 500 for anything else, and success = false.
C30_ErrorStatus ==
  [][ (last.op \notin {"none", "response"} /\ last.res # "ok" /\ last'.op = "response") =>
        /\ last'.data.success = FALSE
        /\ last'.data.statusCode =
             CASE last.res = "ValidationError" -> 400
               [] last.res = "UnauthorizedError" -> 401
               [] last.res = "NotFoundError" -> 404
               [] last.res = "ConflictError" -> 409
               [] OTHER -> 500 ]_vars

\* A delete of a policy that was deleted before, answered with 404.
C30_Witness ==
  /\ last.op = "response" /\ last.res = "delete"
  /\ last.data.success = FALSE /\ last.data.statusCode = 404
  /\ \E t \in Tenants, id \in PolicyIds :
       policies[t][id] # None /\ policies[t][id].State = "deleted"


DomainErrors == {"UnauthorizedError", "ValidationError", "NotFoundError", "ConflictError"}

\* C31: the response built for an error that is none of the four domain
\* errors carries the fixed message 'Internal server error', never the message
\* of the error that was thrown.
C31_GenericInternalMessage ==
  [][ (/\ last.op \notin {"none", "response"}
       /\ last.res \notin DomainErrors \cup {"ok"}
       /\ last'.op = "response")
      => /\ last'.data.statusCode = 500
         /\ last'.data.message = "Internal server error" ]_vars

\* The part of C31 the code keeps: a thrown value that is not an Error gets
\* the fixed message.
C31_NonErrorGeneric ==
  [][ (/\ last.op \notin {"none", "response"}
       /\ last.res = "NotAnError"
       /\ last'.op = "response")
      => /\ last'.data.statusCode = 500
         /\ last'.data.message = "Internal server error" ]_vars


\* C32: the delete event a successful CRUD delete emitted is processed to the
\* end: its validation reports no issue, and its message never ends in the
\* dead-letter queue.
C32_DeleteEventCompletes ==
  [][ /\ \A i \in DOMAIN recs :
           (/\ i \in DOMAIN recs'
            /\ recs[i].ev.eventType = "delete"
            /\ recs[i].pc = "validate" /\ recs'[i].pc # "validate")
           => recs'[i].issues = <<>> /\ recs'[i].pc = "pubRead"
      /\ \A m \in 1..Len(queue') :
           queue'[m].ev.eventType = "delete" => queue'[m].st # "dlq" ]_vars

\* What the code does instead: the validation of a delete event never passes,
\* so no delete event reaches the publish or the index step.
C32_DeleteEventNeverValid ==
  [][ \A i \in DOMAIN recs' :
        recs'[i].ev.eventType = "delete" =>
          /\ recs'[i].pc \notin {"pubRead", "pubUpdRead", "pubUpdWrite", "idxRead",
                                 "idxWrite", "done"}
          /\ ~Did(recs'[i], "publish") /\ ~Did(recs'[i], "index") ]_vars


PublishedLive(t, id) ==
  /\ policies[t][id] # None
  /\ policies[t][id].State # "deleted"
  /\ policies[t][id].content.status = "published"

\* C33: no two non-deleted policies of one tenant are both published with
\* names that are equal ignoring case.
C33_PublishedNamesUnique ==
  \A t \in Tenants, i, j \in PolicyIds :
    (i # j /\ PublishedLive(t, i) /\ PublishedLive(t, j))
    => toLowerCase(policies[t][i].content.name) # toLowerCase(policies[t][j].content.name)


\* The index entries that refer back to a policy other than policy q.
EntriesOfOthers(table, q) == { e \in table : e.PolicyID # q }

\* The step in which record i writes the rule index.
WritesIndex(i) ==
  /\ i \in DOMAIN recs /\ i \in DOMAIN recs'
  /\ recs[i].pc = "idxWrite" /\ recs'[i].pc = "done"

\* C34: the index write made for an event of policy q leaves every entry that
\* refers back to another policy as it was, and adds no such entry.
C34_OtherPoliciesEntriesKept ==
  [][ \A i \in 1..BatchSize :
        WritesIndex(i) =>
          EntriesOfOthers(index', recs[i].ev.policyId)
            = EntriesOfOthers(index, recs[i].ev.policyId) ]_vars

\* What the code keeps: the write touches only the keys (tenant, source,
\* destination, rule id) of the written policy's rules, so another policy's
\* entry survives unless it has one of these keys, and entries of another
\* tenant always survive.
C34_OtherKeysKept ==
  [][ \A i \in 1..BatchSize :
        WritesIndex(i) =>
          LET mine == { <<e.PK, e.SK>> : e \in { n \in index' :
                                                   n.PolicyID = recs[i].ev.policyId } }
          IN \A e \in index :
               (<<e.PK, e.SK>> \notin mine \/ e.TenantID # recs[i].ev.tenantId)
                 => e \in index' ]_vars


\* Nothing is in flight: no CRUD request, no handler invocation, and every
\* message sent was consumed by a handler run that returned.
Quiescent ==
  /\ recs = <<>>
  /\ \A c \in Clients : api[c] = Idle
  /\ \A m \in 1..Len(queue) : queue[m].st = "deleted"

\* The entry is tenant t's and carries the fields of `rule`.
EntryForRule(e, t, rule) ==
  /\ e.TenantID = t /\ e.SK = rule.id /\ e.RuleName = rule.name
  /\ e.Source = sourceIdentifier(rule) /\ e.Destination = rule.domains
  /\ e.Action = rule.action
  /\ e.TimeRestrictions = rule.time /\ e.TrackingConfig = rule.track

\* C35: when no request and no handler invocation is running and every
\* message sent has been consumed, every rule of every published policy has an
\* index entry with the fields of the rule as stored.
C35_IndexConverges ==
  Quiescent =>
    \A t \in Tenants, id \in PolicyIds :
      PublishedLive(t, id) =>
        \A k \in 1..Len(policies[t][id].content.rules) :
          \E e \in index : EntryForRule(e, t, policies[t][id].content.rules[k])


\* Request c ends in this step with an error response.
EndsInError(c) ==
  /\ api[c] # Idle /\ api'[c] = Idle
  /\ last = NoResponse /\ last'.op \in Mutating /\ last'.res # "ok"

\* C36: a create, update or delete request that answers with an error has
\* not written the store: the step that gives the error changes no record, and
\* the request had not committed its write before (it is not a request that
\* was about to send its event); so no written policy is left without its
\* event on the queue.
C36_ErrorLeavesStoreUnchanged ==
  [][ /\ (last = NoResponse /\ last'.op \in Mutating /\ last'.res # "ok")
           => policies' = policies
      /\ \A c \in Clients : EndsInError(c) => api[c].pc # "send" ]_vars

\* What the code keeps: an error raised by the read or by the conditional
\* write itself leaves the store as it was.
C36_ErrorAtWriteLeavesStore ==
  [][ /\ (last = NoResponse /\ last'.op \in Mutating /\ last'.res # "ok")
           => policies' = policies
      /\ \A c \in Clients :
           (EndsInError(c) /\ api[c].pc # "send") => queue' = queue ]_vars


\* Message m is back on the queue after its n-th delivery: the handler run
\* that had it threw.
BackAfter(m, n) ==
  IF Len(queue) >= m THEN queue[m].st = "visible" /\ queue[m].rc = n ELSE FALSE

ReceivedMoreThan(m, n) ==
  IF Len(queue) >= m THEN queue[m].rc > n ELSE FALSE

\* When a handler run ends with a failed record, none of its batch's messages
\* is deleted: all are visible again, those of the records that succeeded too.
BatchReturnedWhole ==
  [][ (recs # <<>> /\ recs' = <<>> /\ \E i \in DOMAIN recs : recs[i].pc = "failed")
      => \A i \in DOMAIN recs :
           /\ queue'[recs[i].m].st = "visible"
           /\ queue'[recs[i].m].rc = queue[recs[i].m].rc ]_vars

\* C37 as stated: a failed handler run deletes none of its batch's messages,
\* and every message of the batch is delivered again.
C37_BatchRedeliveredAlways ==
  /\ BatchReturnedWhole
  /\ \A m \in 1..MaxMsgs, n \in 1..MaxReceiveCount :
       BackAfter(m, n) ~> ReceivedMoreThan(m, n)

\* C37, amended: a failed handler run deletes none of its batch's messages;
\* each is delivered again if it has been received fewer than maxReceiveCount
\* times, and is moved to the dead-letter queue otherwise.
C37_BatchRedeliveredUntilDeadLetter ==
  /\ BatchReturnedWhole
  /\ \A m \in 1..MaxMsgs, n \in 1..(MaxReceiveCount - 1) :
       BackAfter(m, n) ~> ReceivedMoreThan(m, n)
  /\ \A m \in 1..MaxMsgs :
       BackAfter(m, MaxReceiveCount)
         ~> (IF Len(queue) >= m THEN queue[m].st = "dlq" ELSE FALSE)

\* A create event whose policy was published and indexed is being processed
\* a second time, because its first handler run threw for its neighbour.
C37_Witness ==
  \E i \in DOMAIN recs :
    /\ queue[recs[i].m].rc = 2
    /\ recs[i].pc = "cidr"
    /\ Processed(recs[i].ev)
    /\ \E j \in DOMAIN recs : j # i


\* The payload of a token that passed validation: jwt.verify accepts only a
\* numeric exp, and the payload has sub, username, tenant and groups.
ValidatedToken(p) == p.sub # NoField /\ p.expType = "number"

\* C38: the context constructed from a validated token payload is defined
\* and has the payload's tenantId, userId, username and groups; the context
\* constructed from a valid queue envelope is defined and has the envelope's
\* eventType, policyId, tenantId and triggeredBy.
C38_ContextFromPayload ==
  [][ \A c \in Clients :
        (api[c].pc = "construct" /\ api'[c] = Idle) =>
          LET p == api[c].payload
              ctx == last'.data
          IN /\ ValidatedToken(p) =>
                  /\ ctx # None
                  /\ ctx.tenantId = p.tenant_id /\ ctx.userId = p.sub
                  /\ ctx.username = p.username /\ ctx.groups = p.groups
             /\ (p.sub = NoField /\ validateSQSEvent(p)) =>
                  /\ ctx # None
                  /\ ctx.eventType = p.eventType /\ ctx.policyId = p.policyId
                  /\ ctx.tenantId = p.tenantId /\ ctx.triggeredBy = p.triggeredBy ]_vars

\* The part of C38 the code keeps: the context of a valid queue envelope.
C38_ContextFromEnvelope ==
  [][ \A c \in Clients :
        (api[c].pc = "construct" /\ api'[c] = Idle) =>
          LET p == api[c].payload
              ctx == last'.data
          IN (p.sub = NoField /\ validateSQSEvent(p)) =>
                  /\ last'.res = "ok"
                  /\ ctx.eventType = p.eventType /\ ctx.policyId = p.policyId
                  /\ ctx.tenantId = p.tenantId /\ ctx.triggeredBy = p.triggeredBy
                  /\ ctx.correlationId = api[c].correlationId ]_vars


\* The fields of the stored policy that updatePolicy sets itself.
SetByMerge == {"_id", "createdBy", "updatedBy"}

\* A step in which the UpdateCommand of c's updatePolicy commits.
UpdateCommits(c) ==
  /\ api[c].pc = "write" /\ api[c].op = "update"
  /\ api'[c].pc = "send"

\* C39: a committed updatePolicy keeps the policy's id, tenant, creation
\* stamp and creator whatever the update carries, sets updatedBy from the
\* context, and leaves every field the update does not carry as it was stored.
C39_UpdateKeepsTheRest ==
  [][ \A c \in Clients :
        UpdateCommits(c) =>
          LET a == api[c]
              old == policies[a.t][a.id]
              new == policies'[a.t][a.id]
          IN /\ new.content._id = old.content._id
             /\ new.TenantID = old.TenantID
             /\ new.Created = old.Created
             /\ new.content.createdBy = old.content.createdBy
             /\ new.content.updatedBy = ApiContext(a.t).username
             /\ \A f \in DOMAIN old.content \ (DOMAIN a.updates \cup SetByMerge) :
                  new.content[f] = old.content[f] ]_vars

\* What the code keeps of C39: the identity fields, and every field the
\* update does not carry as updatePolicy read it.
C39_UpdateKeepsWhatItRead ==
  [][ \A c \in Clients :
        UpdateCommits(c) =>
          LET a == api[c]
              old == policies[a.t][a.id]
              new == policies'[a.t][a.id]
          IN /\ new.content._id = old.content._id /\ new.content._id = a.id
             /\ new.TenantID = old.TenantID /\ new.TenantID = a.t
             /\ new.Created = old.Created
             /\ new.State = old.State
             /\ new.content.createdBy = old.content.createdBy
             /\ new.content.updatedBy = ApiContext(a.t).username
             /\ \A f \in DOMAIN old.content \ (DOMAIN a.updates \cup SetByMerge) :
                  new.content[f] = a.existing[f] ]_vars

\* A committed update that carried _id, createdBy and updatedBy of its own.
C39_IdentitySupplied ==
  /\ policies["t1"][1] # None
  /\ policies["t1"][1].content.name = "z"
  /\ policies["t1"][1].content._id = 1
  /\ policies["t1"][1].content.createdBy = UserOf("t1")


\* A decimal numeral: one or more digits and nothing else.
IsNumeral(chars) == chars # <<>> /\ \A i \in 1..Len(chars) : chars[i] \in DigitChars

\* The text is four numerals in 0..255 separated by dots.
IsDottedQuad(v) ==
  /\ v.type = "string"
  /\ LET parts == split(v.chars, ".") IN
       /\ Len(parts) = 4
       /\ \A i \in 1..4 : IsNumeral(parts[i]) /\ DecimalValue(parts[i]) \in 0..255

\* The cidr has a prefix length that is a numeral in 0..32.
HasPrefixLength(v) ==
  /\ v.type = "string"
  /\ LET parts == split(v.chars, "/") IN
       /\ Len(parts) = 2
       /\ IsNumeral(parts[2]) /\ DecimalValue(parts[2]) \in 0..32

NetworkOf(v) == IF v.type = "string" THEN Str(split(v.chars, "/")[1]) ELSE Undefined

\* The call of the test that last has just answered.
TestAnswered == last.op \in {"isIpInCidrBlock", "isIpInCidr"}

\* C40: the membership test never throws, and answers false when the cidr's
\* prefix length is missing, not a number or outside 0..32, or when the ip or
\* the network is not four octets in 0..255.
C40_MalformedIsFalse ==
  TestAnswered =>
    /\ last.res \in {"true", "false"}
    /\ (~HasPrefixLength(last.data.cidr)
          \/ ~IsDottedQuad(last.data.ip)
          \/ ~IsDottedQuad(NetworkOf(last.data.cidr))) => last.res = "false"

\* What the code keeps of C40: no call throws, and the answer is false when
\* parseInt reads no number or one outside 0..32 as the prefix length, when
\* the ip or the network has not four parts, or parseInt reads one of them
\* as no number or outside 0..255.
C40_NeverThrows ==
  TestAnswered =>
    /\ last.res \in {"true", "false"}
    /\ LET cidr == last.data.cidr
           prefix == IF cidr.type = "string" /\ Len(split(cidr.chars, "/")) >= 2
                     THEN parseInt(Str(split(cidr.chars, "/")[2])) ELSE NaN
       IN (prefix.nan \/ prefix.val \notin 0..32
             \/ ipToNumberOfText(last.data.ip).thrown
             \/ ipToNumberOfText(NetworkOf(cidr)).thrown) => last.res = "false"

\* A call whose body threw was answered false.
C40_CaughtAnswered ==
  /\ TestAnswered
  /\ CidrTestBody(last.data.ip, last.data.cidr) = "throws"
  /\ last.res = "false"

====
